---- MODULE Spec2Model ----
(***************************************************************************)
(* CrateBatch: the collection document's Mutate entry point                *)
(* (updateTrackNode, services/parser.ts) and the reconciliation scheduler  *)
(* (processBatch in App.tsx driving runConcurrent of services/utils.ts     *)
(* against generateTagsBatch of services/ai.ts).                           *)
(*                                                                         *)
(* Three revisions of processBatch are modelled side by side, selected by  *)
(* the variable impl:                                                      *)
(*   "part_000"  src/unnamed/part_000:83-277  (error-field based)          *)
(*   "part_001"  src/unnamed/part_001:371-570 (part_000 whose retry pass   *)
(*               calls generateTagsBatch(chunk, mode, true))               *)
(*   "App"       src/App.tsx:541-724          (try/catch based)            *)
(* and two revisions of the collaborator generateTagsBatch, selected by    *)
(* the variable collab:                                                    *)
(*   "part_003"  src/unnamed/part_003:122-278 (never rejects, returns an   *)
(*               error field, escalates unresolved years once)             *)
(*   "part_005"  src/unnamed/part_005:53-156  (rethrows transport errors,  *)
(*               returns no error field)                                   *)
(***************************************************************************)
EXTENDS Integers, Sequences, FiniteSets, TLC

\* ------------------------------------------------------------------ bounds
\* Number of tracks of the loaded collection.
MaxTracks == 3
\* Largest chunk size the model ranges over (source: 100, 200 and 50).
MaxChunk == 2
\* Largest concurrency width the model ranges over (source: 8, 2 and 4).
MaxWidth == 2
\* Longest sequence of Mutate calls applied to one raw node.
MaxMutations == 2

\* ------------------------------------------------------- program constants
\* runConcurrent(tasks, 8, 250): the primary pass's inter-task delay (ms).
PrimaryDelayMs == 250
\* runConcurrent(retryTasks, 4, 500): the retry pass's inter-task delay (ms).
RetryDelayMs == 500
\* runConcurrent(tasks, CONCURRENCY) of App.tsx passes no delay: default 0.
DefaultDelayMs == 0

\* ------------------------------------------------------------------ values
\* A JavaScript undefined: an attribute or field that is not there.
Absent == "<undefined>"

\* JavaScript truthiness of a string-or-undefined value.
Truthy(s) == s \notin {Absent, ""}

\* String.prototype.trim on the values the model ranges over: the only
\* values carrying whitespace are the all-blank ones.
Trim(s) == IF s \in {" ", "  "} THEN "" ELSE s

\* `x || d` of JavaScript.
OrElse(x, d) == IF Truthy(x) THEN x ELSE d

Modes == {"full", "missing_genre", "missing_year"}

\* Values of the raw @_Year and @_Genre attributes of a TRACK node.
\* (The parser runs with trimValues, so no attribute value is blank-padded.)
YearAttrs == {Absent, "", "0", "1999"}
GenreAttrs == {Absent, "", "House"}
CommentAttrs == {Absent, "Energy: 7", "#Dark #Techno #PeakHour"}

\* Values of the fields of an AIAnalysis handed to updateTrackNode.
AnalysisYears == {Absent, "", "0", "2005"}
AnalysisGenres == {Absent, "", "Unknown", "Techno"}
AnalysisVibes == {"Dark"}
AnalysisSituations == {"Peak Hour"}

AIAnalysis ==
    [vibe : AnalysisVibes, genre : AnalysisGenres,
     situation : AnalysisSituations, year : AnalysisYears, hashtags : {Absent}]

\* A raw TRACK node as the parser keeps it: has is FALSE when the node has
\* no ':@' attribute object at all.
RawNodes ==
    [has : {TRUE}, Year : YearAttrs, Genre : GenreAttrs, Comments : CommentAttrs,
     Name : {"Song"}]
    \cup
    [has : {FALSE}, Year : {Absent}, Genre : {Absent}, Comments : {Absent},
     Name : {Absent}]

\* ------------------------------------------------------- generateHashtags
\* str.replace(/\s+/g, '') on the vocabulary the model ranges over.
StripSpaces(str) == IF str = "Peak Hour" THEN "PeakHour" ELSE str

\* toHashtag of generateHashtags.
ToHashtag(str) == IF Truthy(str) THEN "#" \o StripSpaces(str) ELSE ""

\* The parts array of generateHashtags after .filter(Boolean).
HashtagParts(analysis) ==
    LET keep(str) == IF Truthy(str) THEN <<ToHashtag(str)>> ELSE <<>>
    IN keep(analysis.vibe) \o keep(analysis.genre) \o keep(analysis.situation)

\* parts.join(' ')
RECURSIVE Join(_)
Join(parts) ==
    IF parts = <<>> THEN ""
    ELSE IF Len(parts) = 1 THEN parts[1]
    ELSE parts[1] \o " " \o Join(Tail(parts))

GenerateHashtags(analysis) == Join(HashtagParts(analysis))

\* The blank-separated words of a Comments value.
CommentWords(c) ==
    CASE c = "Energy: 7" -> <<"Energy:", "7">>
      [] c = "#Dark #Techno #PeakHour" -> <<"#Dark", "#Techno", "#PeakHour">>
      [] OTHER -> <<>>

\* How many times the words of a tag string occur in a Comments value.
Occurrences(c, parts) ==
    LET w == CommentWords(c)
    IN IF parts = <<>> THEN 0
       ELSE Cardinality({k \in 1..Len(w) :
                k + Len(parts) - 1 <= Len(w)
                /\ SubSeq(w, k, k + Len(parts) - 1) = parts})

\* ------------------------------------------------------------ Mutate
\* Faulty variants of updateTrackNode (a guard dropped or misplaced); the
\* properties below are shown to tell each of them from the real one.
UpdateTrackNodeNoYearGuard(node, analysis, mode) ==
    IF ~node.has THEN node
    ELSE IF mode = "missing_genre" THEN
        IF Truthy(analysis.genre) THEN [node EXCEPT !.Genre = analysis.genre] ELSE node
    ELSE IF mode = "missing_year" THEN
        IF Truthy(analysis.year) THEN [node EXCEPT !.Year = analysis.year] ELSE node
    ELSE
        LET n1 == IF Truthy(analysis.year) /\ (~Truthy(node.Year) \/ node.Year = "0")
                  THEN [node EXCEPT !.Year = analysis.year] ELSE node
        IN IF Truthy(analysis.genre) /\ (~Truthy(n1.Genre) \/ Trim(n1.Genre) = "")
           THEN [n1 EXCEPT !.Genre = analysis.genre] ELSE n1

UpdateTrackNodeYearTouchesGenre(node, analysis, mode) ==
    IF ~node.has THEN node
    ELSE IF mode = "missing_genre" THEN
        IF Truthy(analysis.genre) THEN [node EXCEPT !.Genre = analysis.genre] ELSE node
    ELSE IF mode = "missing_year" THEN
        LET n1 == IF Truthy(analysis.year) /\ (~Truthy(node.Year) \/ node.Year = "0")
                  THEN [node EXCEPT !.Year = analysis.year] ELSE node
        IN IF Truthy(analysis.genre) THEN [n1 EXCEPT !.Genre = analysis.genre] ELSE n1
    ELSE
        LET n1 == IF Truthy(analysis.year) /\ (~Truthy(node.Year) \/ node.Year = "0")
                  THEN [node EXCEPT !.Year = analysis.year] ELSE node
        IN IF Truthy(analysis.genre) /\ (~Truthy(n1.Genre) \/ Trim(n1.Genre) = "")
           THEN [n1 EXCEPT !.Genre = analysis.genre] ELSE n1

UpdateTrackNodeFullSkipsZero(node, analysis, mode) ==
    IF ~node.has THEN node
    ELSE IF mode = "missing_genre" THEN
        IF Truthy(analysis.genre) THEN [node EXCEPT !.Genre = analysis.genre] ELSE node
    ELSE IF mode = "missing_year" THEN
        IF Truthy(analysis.year) /\ (~Truthy(node.Year) \/ node.Year = "0")
        THEN [node EXCEPT !.Year = analysis.year] ELSE node
    ELSE
        LET n1 == IF Truthy(analysis.year) /\ ~Truthy(node.Year)
                  THEN [node EXCEPT !.Year = analysis.year] ELSE node
        IN IF Truthy(analysis.genre) /\ (~Truthy(n1.Genre) \/ Trim(n1.Genre) = "")
           THEN [n1 EXCEPT !.Genre = analysis.genre] ELSE n1

UpdateTrackNodeFullOverwrites(node, analysis, mode) ==
    IF ~node.has THEN node
    ELSE IF mode = "missing_genre" THEN
        IF Truthy(analysis.genre) THEN [node EXCEPT !.Genre = analysis.genre] ELSE node
    ELSE IF mode = "missing_year" THEN
        IF Truthy(analysis.year) /\ (~Truthy(node.Year) \/ node.Year = "0")
        THEN [node EXCEPT !.Year = analysis.year] ELSE node
    ELSE
        LET n1 == IF Truthy(analysis.year)
                  THEN [node EXCEPT !.Year = analysis.year] ELSE node
        IN IF Truthy(analysis.genre)
           THEN [n1 EXCEPT !.Genre = analysis.genre] ELSE n1

UpdateTrackNodeAppendsHashtags(node, analysis, mode) ==
    IF ~node.has THEN node
    ELSE IF mode = "missing_genre" THEN
        IF Truthy(analysis.genre) THEN [node EXCEPT !.Genre = analysis.genre] ELSE node
    ELSE IF mode = "missing_year" THEN
        IF Truthy(analysis.year) /\ (~Truthy(node.Year) \/ node.Year = "" \/ node.Year = "0")
        THEN [node EXCEPT !.Year = analysis.year] ELSE node
    ELSE
        LET n1 == IF Truthy(analysis.year)
                     /\ (~Truthy(node.Year) \/ node.Year = "" \/ node.Year = "0")
                  THEN [node EXCEPT !.Year = analysis.year] ELSE node
            n2 == IF Truthy(analysis.genre) /\ (~Truthy(n1.Genre) \/ Trim(n1.Genre) = "")
                  THEN [n1 EXCEPT !.Genre = analysis.genre] ELSE n1
        IN IF Occurrences(n2.Comments, HashtagParts(analysis)) > 0 THEN n2
           ELSE [n2 EXCEPT !.Comments =
                    IF Truthy(n2.Comments)
                    THEN n2.Comments \o " " \o GenerateHashtags(analysis)
                    ELSE GenerateHashtags(analysis)]

\* updateTrackNode(track, analysis, mode): the value of track._rawNode
\* after the call.
UpdateTrackNode(node, analysis, mode) ==
    IF ~node.has THEN node
    ELSE IF mode = "missing_genre" THEN
        IF Truthy(analysis.genre) THEN [node EXCEPT !.Genre = analysis.genre] ELSE node
    ELSE IF mode = "missing_year" THEN
        IF Truthy(analysis.year) /\ (~Truthy(node.Year) \/ node.Year = "" \/ node.Year = "0")
        THEN [node EXCEPT !.Year = analysis.year] ELSE node
    ELSE
        LET n1 == IF Truthy(analysis.year)
                     /\ (~Truthy(node.Year) \/ node.Year = "" \/ node.Year = "0")
                  THEN [node EXCEPT !.Year = analysis.year] ELSE node
        IN IF Truthy(analysis.genre) /\ (~Truthy(n1.Genre) \/ Trim(n1.Genre) = "")
           THEN [n1 EXCEPT !.Genre = analysis.genre] ELSE n1

\* ------------------------------------------------------------ collaborator
Ids == 1..MaxTracks

\* Closed vocabularies (services/taxonomy.ts), cut down to the members the
\* model's collaborator can name.
VIBE_TAGS == {"Dark", "Groovy"}
MICRO_GENRE_TAGS == {"Techno", "Trap"}
SITUATION_TAGS == {"Peak Hour", "Warm Up"}
\* The broad genres a genre-only request is validated against.
MAIN_GENRE_TAGS == {"Techno", "House"}

\* tag.trim().toLowerCase() on the raw strings the model's collaborator
\* returns.
TrimLower(tag) ==
    CASE tag = " techno " -> "techno"
      [] tag = "DARK" -> "dark"
      [] tag = "Peak Hour" -> "peak hour"
      [] tag = "Techno" -> "techno"
      [] tag = "Dark" -> "dark"
      [] tag = "Trap" -> "trap"
      [] tag = "Groovy" -> "groovy"
      [] tag = "Warm Up" -> "warm up"
      [] tag = "House" -> "house"
      [] OTHER -> tag

\* validateTag(tag, allowed)
ValidateTag(tag, allowed) ==
    IF ~Truthy(tag) THEN "Unknown"
    ELSE IF \E t \in allowed : TrimLower(t) = TrimLower(tag)
         THEN CHOOSE t \in allowed : TrimLower(t) = TrimLower(tag)
         ELSE "Unknown"

\* The items the external service may return for one requested track.
Items ==
    { [vibe |-> "DARK", genre |-> " techno ", situation |-> "Peak Hour",
       release_year |-> "2005", hashtags |-> "#Techno #Dark #PeakHour"],
      [vibe |-> Absent, genre |-> "Polka", situation |-> Absent,
       release_year |-> Absent, hashtags |-> "#Polka"] }

\* An id the response carries no item for.
NoItem ==
    [vibe |-> Absent, genre |-> Absent, situation |-> Absent,
     release_year |-> Absent, hashtags |-> Absent]

NoAnalysis ==
    [vibe |-> Absent, genre |-> Absent, situation |-> Absent, year |-> Absent,
     hashtags |-> Absent]

\* The AIAnalysis generateTagsBatch stores in resultsMap for one item.
\* part_003:219-227 validates the genre of a genre-only request against the
\* broad genres and passes item.hashtags on as it came; part_005:122-127
\* stores no hashtags.
ToAnalysis(item, cb, m) ==
    IF cb = "part_003"
    THEN [vibe |-> ValidateTag(item.vibe, VIBE_TAGS),
          genre |-> ValidateTag(item.genre,
                       IF m = "missing_genre" THEN MAIN_GENRE_TAGS ELSE MICRO_GENRE_TAGS),
          situation |-> ValidateTag(item.situation, SITUATION_TAGS),
          year |-> OrElse(item.release_year, "0"),
          hashtags |-> item.hashtags]
    ELSE [vibe |-> ValidateTag(item.vibe, VIBE_TAGS),
          genre |-> ValidateTag(item.genre, MICRO_GENRE_TAGS),
          situation |-> ValidateTag(item.situation, SITUATION_TAGS),
          year |-> OrElse(item.release_year, ""),
          hashtags |-> Absent]

\* A results map (Record<string, AIAnalysis>): NoAnalysis marks a missing key.
NoResults == [i \in Ids |-> NoAnalysis]
Has(results, id) == results[id] # NoAnalysis
Keys(results) == {i \in Ids : Has(results, i)}

\* What one transport call over the ids S can come back with: a failure
\* (rejected fetch / bridge call, success:false) or items for any subset.
Responses(S) ==
    { [kind |-> "failure", items |-> [i \in Ids |-> NoItem]] }
    \cup
    { [kind |-> "items", items |-> [i \in Ids |-> IF i \in S THEN f[i] ELSE NoItem]] :
        f \in [S -> Items \cup {NoItem}] }

\* A collaborator whose answer for a track depends on that track alone is
\* a table id -> item (NoItem: no answer for the track).  FreeOracle stands
\* for a collaborator that is not bound to a table.
AnyItem ==
    [vibe |-> "*", genre |-> "*", situation |-> "*", release_year |-> "*",
     hashtags |-> "*"]
FreeOracle == [i \in Ids |-> AnyItem]
Oracles == [Ids -> Items \cup {NoItem}]

\* resp is what the collaborator of the run answers for the ids S.
Answers(orc, resp, S) ==
    orc = FreeOracle \/ (resp.kind = "items" /\ \A i \in S : resp.items[i] = orc[i])

\* Responses that carry, besides items for ids of S, an item for one id
\* that was not requested.
ForeignItem == CHOOSE it \in Items : it.release_year # Absent
ForeignResponses(S) ==
    { [r EXCEPT !.items[x] = ForeignItem] :
        r \in {q \in Responses(S) : q.kind = "items"}, x \in Ids \ S }

ResultsOf(resp, cb, m) ==
    [i \in Ids |-> IF resp.items[i] = NoItem THEN NoAnalysis
                   ELSE ToAnalysis(resp.items[i], cb, m)]

\* part_003:237-241: the tracks of a year request that got no confident year.
FailedIds(S, results) ==
    {i \in S : ~Has(results, i) \/ results[i].year \in {"0", "", "Unknown"}}

\* Object.assign(resultsMap, retryResult.results)
Assign(base, over) == [i \in Ids |-> IF Has(over, i) THEN over[i] ELSE base[i]]

\* ------------------------------------------------------------------- state
VARIABLES
    impl,           \* which processBatch revision runs
    collab,         \* which generateTagsBatch revision it calls
    available,      \* FALSE: the transport is not configured at all
    chunkSize,      \* chunkArray size of the primary pass
    width,          \* runConcurrent width of the primary pass
    retryChunkSize, \* chunkArray size of the retry pass
    retryWidth,     \* runConcurrent width of the retry pass
    mode,           \* mode of the running job
    raw,            \* fullXmlDataRef: id -> attributes of the raw TRACK node
    tracks,         \* React state `tracks`: id -> Track projection
    phase,          \* "idle", "primary", "retry", "done": where processBatch is
    target,         \* targetTracks, as a sequence of ids
    queue,          \* runConcurrent's queue of chunk tasks not yet started
    workers,        \* runConcurrent's workers and the call each one awaits
    retryQueue,     \* failedTracks / retryQueue, as a sequence of ids
    songsProcessed, \* processingStats.songsProcessed
    totalSongs,     \* processingStats.totalSongs
    analyzingIds,   \* activeProcessingIds / analyzingIds
    isEnriching,    \* React state isEnriching
    submits,        \* id -> number of generateTagsBatch calls it was part of
    attempts,       \* id -> per call, whether the call returned a result for it
    oracle,         \* id -> the item a per-track collaborator answers with
    file,           \* which collection is loaded: "first", "none", "second"
    mNode,          \* Mutate under test: the raw node
    mOrig,          \* the node before the first Mutate
    mLast,          \* the last Mutate call: mode, analysis and node before it
    mModes,         \* the modes of the Mutate calls so far, in order
    collection,     \* fullData: the children of COLLECTION, in order
    docTracks,      \* the Track projections of the collection's tracks
    playlists,      \* fullData: the PLAYLISTS section of DJ_PLAYLISTS
    docLog,         \* the last two operations on the document and their outputs
    nOps,           \* operations applied to the document so far
    dupTracks,      \* findDuplicates under test: its argument
    dupResult       \* what findDuplicates returned for it

jobVars ==
    <<impl, collab, available, chunkSize, width, retryChunkSize, retryWidth, mode,
      raw, tracks, phase, target, queue, workers, retryQueue, songsProcessed,
      totalSongs, analyzingIds, isEnriching, submits, attempts, oracle, file>>
envVars == <<oracle, file>>
mutVars == <<mNode, mOrig, mLast, mModes>>
docVars == <<collection, docTracks, playlists, docLog, nOps>>
dupVars == <<dupTracks, dupResult>>
libVars == <<docVars, dupVars>>
vars == <<jobVars, mutVars, libVars>>

\* No document loaded and no duplicate scan run.
NoLog == [op |-> "none", prevOp |-> "none", out |-> <<>>, prevOut |-> <<>>,
          before |-> <<>>, synth |-> <<>>, args |-> <<>>, orig |-> <<>>]
DocIdle ==
    /\ collection = <<>>
    /\ docTracks = <<>>
    /\ playlists = [present |-> FALSE, kids |-> <<>>]
    /\ docLog = NoLog
    /\ nOps = 0
DupIdle ==
    /\ dupTracks = <<>>
    /\ dupResult = [ran |-> FALSE, ids |-> {}, groups |-> <<>>]

\* -------------------------------------------------------------- helpers
Min(a, b) == IF a < b THEN a ELSE b

SeqSet(s) == {s[i] : i \in 1..Len(s)}

\* array.filter(pred) over a sequence of ids, pred given as a set
RECURSIVE Filter(_, _)
Filter(s, keep) ==
    IF s = <<>> THEN <<>>
    ELSE IF Head(s) \in keep THEN <<Head(s)>> \o Filter(Tail(s), keep)
    ELSE Filter(Tail(s), keep)

\* chunkArray(array, size)
RECURSIVE ChunkArray(_, _)
ChunkArray(array, size) ==
    IF Len(array) = 0 THEN <<>>
    ELSE <<SubSeq(array, 1, Min(size, Len(array)))>>
         \o ChunkArray(SubSeq(array, Min(size, Len(array)) + 1, Len(array)), size)

\* parseRekordboxXML's projection of one TRACK node (the comment values of
\* the model carry no hashtag, so no pre-existing Analysis is extracted).
ParseTrack(node) ==
    [Year |-> OrElse(node.Year, ""), Genre |-> OrElse(node.Genre, ""),
     Analysis |-> NoAnalysis]

\* The collections a job can start from.
BlankNode ==
    [has |-> TRUE, Year |-> Absent, Genre |-> Absent, Comments |-> Absent,
     Name |-> "Song"]
ZeroYearNode ==
    [has |-> TRUE, Year |-> "0", Genre |-> "", Comments |-> "Energy: 7",
     Name |-> "Song"]
Libraries ==
    { [i \in Ids |-> IF i % 2 = 0 THEN ZeroYearNode ELSE BlankNode] }

\* The collection of the file loaded first, and its Track projections.
FirstFile == CHOOSE l \in Libraries : TRUE
FirstTracks == [i \in Ids |-> ParseTrack(FirstFile[i])]

\* A collection loaded later, with the same track ids.
SecondNode ==
    [has |-> TRUE, Year |-> "1999", Genre |-> "House", Comments |-> Absent,
     Name |-> "Other"]
SecondFile == [i \in Ids |-> SecondNode]
SecondTracks == [i \in Ids |-> ParseTrack(SecondFile[i])]

\* setTracks([]) and fullXmlDataRef.current = null
NoTracks == [i \in Ids |-> [Year |-> Absent, Genre |-> Absent, Analysis |-> NoAnalysis]]
NoTree ==
    [i \in Ids |-> [has |-> FALSE, Year |-> Absent, Genre |-> Absent,
                    Comments |-> Absent, Name |-> Absent]]

\* fullXmlDataRef.current is still the tree the Tracks of the running job
\* point into (track._rawNode): the CLEAR of part_000 leaves the ref alone.
JobTreeLoaded == file = "first" \/ (file = "none" /\ impl # "App")

\* runConcurrent's delayBetweenTasks for a pass of the running revision.
DelayBetweenTasks(pass) ==
    IF impl \in {"part_000", "part_001"}
    THEN (IF pass = "primary" THEN PrimaryDelayMs ELSE RetryDelayMs)
    ELSE DefaultDelayMs

IdleWorker == [st |-> "none", chunk |-> <<>>, sub |-> {}, level |-> 0, acc |-> NoResults]
InFlight(chunk) ==
    [st |-> "inflight", chunk |-> chunk, sub |-> SeqSet(chunk), level |-> 0,
     acc |-> NoResults]

InFlightIds(ws) == UNION {SeqSet(ws[w].chunk) : w \in {v \in DOMAIN ws : ws[v].st = "inflight"}}
NumInFlight == Cardinality({w \in DOMAIN workers : workers[w].st = "inflight"})

\* ------------------------------------------------------ generateTagsBatch
\* The isRetry argument of the generateTagsBatch invocation whose transport
\* call worker w awaits: true for the recursive call of part_003:248 and
\* for every call of the retry pass of part_001 (part_001:503); part_000
\* and App.tsx pass no third argument (default false).
IsRetry(w) ==
    workers[w].level = 1 \/ (impl = "part_001" /\ phase = "retry")

\* What the call awaited by worker w does when its transport call comes
\* back with resp.  kind is "return" (the promise resolves with results and
\* error), "throw" (it rejects) or "escalate" (it goes on into its own
\* recursive call and stays pending).
GenerateTagsBatchPart003AlwaysEscalates(w, resp) ==
    LET W == workers[w]
        R == ResultsOf(resp, "part_003", mode)
    IN IF resp.kind = "failure"
       THEN [kind |-> "return", results |-> Assign(W.acc, NoResults), error |-> TRUE]
       ELSE IF mode = "missing_year" /\ FailedIds(W.sub, R) # {}
       THEN [kind |-> "escalate", results |-> Assign(W.acc, R), error |-> FALSE]
       ELSE [kind |-> "return", results |-> Assign(W.acc, R), error |-> FALSE]

GenerateTagsBatchPart003(w, resp) ==
    LET W == workers[w]
        R == ResultsOf(resp, "part_003", mode)
    IN IF W.level = 0
       THEN IF resp.kind = "failure"
            THEN [kind |-> "return", results |-> NoResults, error |-> TRUE]
            ELSE IF mode = "missing_year" /\ ~IsRetry(w) /\ FailedIds(W.sub, R) # {}
            THEN [kind |-> "escalate", results |-> R, error |-> FALSE]
            ELSE [kind |-> "return", results |-> R, error |-> (Keys(R) = {})]
       ELSE [kind |-> "return",
             results |-> Assign(W.acc, IF resp.kind = "failure" THEN NoResults ELSE R),
             error |-> FALSE]

GenerateTagsBatchPart005(w, resp) ==
    IF ~available
    THEN [kind |-> "return", results |-> NoResults, error |-> FALSE]
    ELSE IF resp.kind = "failure"
    THEN [kind |-> "throw", results |-> NoResults, error |-> FALSE]
    ELSE [kind |-> "return", results |-> ResultsOf(resp, "part_005", mode), error |-> FALSE]

GenerateTagsBatch(w, resp) ==
    IF collab = "part_003" THEN GenerateTagsBatchPart003(w, resp)
    ELSE GenerateTagsBatchPart005(w, resp)

\* ------------------------------------------------------------ processBatch
\* The filters the callers of processBatch apply to `tracks`.
CallerFilter(m) ==
    IF m = "missing_year"
    THEN {i \in Ids : ~Truthy(tracks[i].Year) \/ Trim(tracks[i].Year) = ""
                      \/ tracks[i].Year = "0"}
    ELSE IF m = "missing_genre"
    THEN {i \in Ids : ~Truthy(tracks[i].Genre) \/ Trim(tracks[i].Genre) = ""}
    ELSE {i \in Ids : tracks[i].Analysis = NoAnalysis}

AllIds == [i \in Ids |-> i]

\* The setTracks updater of part_000:157-177 (and 236-256) for one track.
MergeTrackPart000(t, res, m) ==
    IF m = "missing_genre"
    THEN [t EXCEPT !.Genre = IF res.genre # "Unknown" THEN res.genre ELSE t.Genre,
                   !.Analysis = IF t.Analysis # NoAnalysis
                                THEN [t.Analysis EXCEPT !.genre = res.genre]
                                ELSE [genre |-> res.genre, vibe |-> "Unknown",
                                      situation |-> "Unknown", year |-> "0",
                                      hashtags |-> Absent]]
    ELSE IF m = "missing_year"
    THEN [t EXCEPT !.Year = IF Truthy(res.year) /\ res.year # "0" THEN res.year ELSE t.Year,
                   !.Analysis = IF t.Analysis # NoAnalysis
                                THEN [t.Analysis EXCEPT !.year = res.year]
                                ELSE [genre |-> "Unknown", vibe |-> "Unknown",
                                      situation |-> "Unknown", year |-> res.year,
                                      hashtags |-> Absent]]
    ELSE [t EXCEPT !.Analysis = res]

\* The setTracks updater of the retry pass of part_001:531-548: a genre
\* result sets Genre and leaves Analysis alone.
MergeTrackPart001Retry(t, res, m) ==
    IF m = "missing_genre"
    THEN [t EXCEPT !.Genre = IF res.genre # "Unknown" THEN res.genre ELSE t.Genre]
    ELSE MergeTrackPart000(t, res, m)

\* The setTracks updater of App.tsx:635-647 (and 702-710) for one track.
MergeTrackApp(t, res, m) ==
    IF m = "missing_genre" THEN [t EXCEPT !.Genre = res.genre]
    ELSE IF m = "missing_year" THEN [t EXCEPT !.Year = OrElse(res.year, t.Year)]
    ELSE [t EXCEPT !.Analysis = res]

\* chunk.forEach(t => { if (results[t.TrackID]) updateTrackNode(t, ...) })
\* A write-through that starts from the tree as it was loaded, so that
\* the chunk merged last wipes out the chunks merged before it.
WriteThroughFromSnapshot(chunk, results) ==
    [i \in Ids |-> IF i \in SeqSet(chunk) /\ Has(results, i)
                   THEN UpdateTrackNode(raw[i], results[i], mode) ELSE FirstFile[i]]

WriteThrough(chunk, results) ==
    [i \in Ids |-> IF i \in SeqSet(chunk) /\ Has(results, i)
                   THEN UpdateTrackNode(raw[i], results[i], mode) ELSE raw[i]]

\* The rest of a chunk task of part_000 once generateTagsBatch has settled
\* with ret: the new retry list, processed count, tracks, raw tree and
\* in-flight ids.  A rejection leaves the task at the await: nothing after
\* it runs.
TaskPart000(chunk, ret) ==
    IF ret.kind = "throw"
    THEN [retryQueue |-> retryQueue, songsProcessed |-> songsProcessed,
          tracks |-> tracks, raw |-> raw, analyzingIds |-> analyzingIds]
    ELSE LET failed == ret.error \/ Keys(ret.results) = {}
         IN [retryQueue |-> IF phase = "primary" /\ failed
                            THEN retryQueue \o chunk ELSE retryQueue,
             songsProcessed |-> IF failed THEN songsProcessed
                                ELSE songsProcessed + Len(chunk),
             tracks |-> [i \in Ids |->
                           IF ~Has(ret.results, i) THEN tracks[i]
                           ELSE IF impl = "part_001" /\ phase = "retry"
                           THEN MergeTrackPart001Retry(tracks[i], ret.results[i], mode)
                           ELSE MergeTrackPart000(tracks[i], ret.results[i], mode)],
             raw |-> WriteThrough(chunk, ret.results),
             analyzingIds |-> analyzingIds \ SeqSet(chunk)]

\* The rest of a chunk task of App.tsx (try / catch / finally).
TaskApp(chunk, ret) ==
    IF ret.kind = "throw"
    THEN [retryQueue |-> IF phase = "primary" THEN retryQueue \o chunk ELSE retryQueue,
          songsProcessed |-> songsProcessed,
          tracks |-> tracks, raw |-> raw,
          analyzingIds |-> analyzingIds \ SeqSet(chunk)]
    ELSE LET missingInBatch == Filter(chunk, Ids \ Keys(ret.results))
         IN [retryQueue |-> IF phase = "primary"
                            THEN retryQueue \o missingInBatch ELSE retryQueue,
             songsProcessed |->
                 IF phase = "primary"
                 THEN songsProcessed + (Len(chunk) - Len(missingInBatch))
                 ELSE Min(songsProcessed + Cardinality(Keys(ret.results)), totalSongs),
             tracks |-> [i \in Ids |-> IF Has(ret.results, i)
                                       THEN MergeTrackApp(tracks[i], ret.results[i], mode)
                                       ELSE tracks[i]],
             raw |-> WriteThrough(chunk, ret.results),
             analyzingIds |-> analyzingIds \ SeqSet(chunk)]

Task(chunk, ret) ==
    IF impl = "App" THEN TaskApp(chunk, ret) ELSE TaskPart000(chunk, ret)

\* ----------------------------------------------------------- runConcurrent
\* The workers runConcurrent creates: Math.min(tasks.length, concurrency) of
\* them, each taking the next task of the queue at once.
NumWorkersPerTask(chunks, concurrency) == Len(chunks)

NumWorkers(chunks, concurrency) == Min(Len(chunks), concurrency)

StartWorkers(chunks, concurrency) ==
    [w \in 1..(MaxWidth) |-> IF w <= NumWorkers(chunks, concurrency)
                             THEN InFlight(chunks[w]) ELSE IdleWorker]

\* A worker that takes the newest task of the queue instead of the oldest.
LoopTestTakesLast(q) ==
    IF q # <<>> THEN InFlight(q[Len(q)]) ELSE [IdleWorker EXCEPT !.st = "exited"]

\* `while (queue.length > 0) { task = queue.shift(); await task() ... }`:
\* the worker's state when it reaches the loop test with queue q.
LoopTest(q) == IF q # <<>> THEN InFlight(Head(q)) ELSE [IdleWorker EXCEPT !.st = "exited"]

\* A worker without the try / catch around `await task()`: a rejected task
\* ends the worker.
AfterTaskNoCatch(q, pass, ret) ==
    IF ret.kind = "throw" /\ impl # "App"
    THEN [IdleWorker EXCEPT !.st = "exited"]
    ELSE IF DelayBetweenTasks(pass) > 0 /\ q # <<>>
    THEN [IdleWorker EXCEPT !.st = "sleeping"]
    ELSE LoopTest(q)

\* The worker's state after its task settled with ret.  `try { await
\* task() } catch (e) { console.error(...) }`: resolved or rejected, the
\* worker goes on; it sleeps if a delay is set and work is left, else it
\* goes round the loop.
AfterTask(q, pass, ret) ==
    IF DelayBetweenTasks(pass) > 0 /\ q # <<>>
    THEN [IdleWorker EXCEPT !.st = "sleeping"]
    ELSE LoopTest(q)

Bump(count, ids) == [i \in Ids |-> IF i \in ids THEN count[i] + 1 ELSE count[i]]

\* ----------------------------------------------------------------- actions
InitWith(orc) ==
    /\ impl \in {"part_000", "part_001", "App"}
    /\ collab \in {"part_003", "part_005"}
    /\ impl = "part_001" => collab = "part_003"
    /\ available \in BOOLEAN
    /\ chunkSize \in 1..MaxChunk
    /\ width \in 1..MaxWidth
    /\ retryChunkSize \in 1..MaxChunk
    /\ retryWidth \in 1..MaxWidth
    /\ mode = "full"
    /\ raw \in Libraries
    /\ tracks = [i \in Ids |-> ParseTrack(raw[i])]
    /\ phase = "idle"
    /\ target = <<>>
    /\ queue = <<>>
    /\ workers = [w \in 1..MaxWidth |-> IdleWorker]
    /\ retryQueue = <<>>
    /\ songsProcessed = 0
    /\ totalSongs = 0
    /\ analyzingIds = {}
    /\ isEnriching = FALSE
    /\ submits = [i \in Ids |-> 0]
    /\ attempts = [i \in Ids |-> <<>>]
    /\ oracle = orc
    /\ file = "first"
    /\ mNode = BlankNode
    /\ mOrig = BlankNode
    /\ mLast = [mode |-> "none", analysis |-> NoAnalysis, before |-> BlankNode]
    /\ mModes = <<>>
    /\ DocIdle
    /\ DupIdle

\* The App with a file loaded and no job started yet.
Init == InitWith(FreeOracle)

\* processBatch(targetTracks, mode) from a caller, up to its first await:
\* the statistics are reset, the chunks cut and the primary pass started.
StartJob(m) ==
    /\ phase = "idle"
    /\ LET tgt == Filter(AllIds, CallerFilter(m))
           chunks == ChunkArray(tgt, chunkSize)
           k == NumWorkers(chunks, width)
           started == UNION {SeqSet(chunks[j]) : j \in 1..k}
       IN /\ Len(tgt) > 0
          /\ mode' = m
          /\ target' = tgt
          /\ phase' = "primary"
          /\ isEnriching' = TRUE
          /\ songsProcessed' = 0
          /\ totalSongs' = Len(tgt)
          /\ retryQueue' = <<>>
          /\ workers' = StartWorkers(chunks, width)
          /\ queue' = SubSeq(chunks, k + 1, Len(chunks))
          /\ analyzingIds' = analyzingIds \cup started
          /\ submits' = Bump(submits, started)
    /\ UNCHANGED <<impl, collab, available, chunkSize, width, retryChunkSize,
                   retryWidth, raw, tracks, attempts, envVars, mutVars, libVars>>

\* The transport call awaited by worker w comes back.  Either the
\* collaborator goes into its recursive call, or generateTagsBatch settles:
\* then the rest of the chunk task runs and the worker goes on with its loop.
Complete(w, resp) ==
    /\ phase \in {"primary", "retry"}
    /\ workers[w].st = "inflight"
    /\ ~available => resp.kind = "failure"
    /\ Answers(oracle, resp, workers[w].sub)
    /\ LET W == workers[w]
           ret == GenerateTagsBatch(w, resp)
           eff == Task(W.chunk, ret)
           nw == AfterTask(queue, phase, ret)
       IN IF ret.kind = "escalate"
          THEN /\ workers' = [workers EXCEPT ![w] =
                                [W EXCEPT !.sub = FailedIds(W.sub, ret.results),
                                          !.level = W.level + 1,
                                          !.acc = ret.results]]
               /\ UNCHANGED <<queue, retryQueue, songsProcessed, tracks, raw,
                              analyzingIds, submits, attempts>>
          ELSE /\ workers' = [workers EXCEPT ![w] = nw]
               /\ queue' = IF nw.st = "inflight" THEN Tail(queue) ELSE queue
               /\ retryQueue' = eff.retryQueue
               /\ songsProcessed' = eff.songsProcessed
               /\ tracks' = IF file = "none" THEN tracks ELSE eff.tracks
               /\ raw' = IF JobTreeLoaded THEN eff.raw ELSE raw
               /\ analyzingIds' = eff.analyzingIds \cup SeqSet(nw.chunk)
               /\ submits' = Bump(submits, SeqSet(nw.chunk))
               /\ attempts' = [i \in Ids |->
                                 IF i \in SeqSet(W.chunk)
                                 THEN Append(attempts[i],
                                             IF ret.kind = "return" /\ Has(ret.results, i)
                                             THEN "ok" ELSE "fail")
                                 ELSE attempts[i]]
    /\ UNCHANGED <<impl, collab, available, chunkSize, width, retryChunkSize,
                   retryWidth, mode, phase, target, totalSongs, isEnriching, envVars, mutVars, libVars>>

\* The sleep(delayBetweenTasks) of worker w ends: back to the loop test.
Wake(w) ==
    /\ workers[w].st = "sleeping"
    /\ LET nw == LoopTest(queue)
       IN /\ workers' = [workers EXCEPT ![w] = nw]
          /\ queue' = IF nw.st = "inflight" THEN Tail(queue) ELSE queue
          /\ analyzingIds' = analyzingIds \cup SeqSet(nw.chunk)
          /\ submits' = Bump(submits, SeqSet(nw.chunk))
    /\ UNCHANGED <<impl, collab, available, chunkSize, width, retryChunkSize,
                   retryWidth, mode, raw, tracks, phase, target, retryQueue,
                   songsProcessed, totalSongs, isEnriching, attempts, envVars, mutVars, libVars>>

AllWorkersDone == \A w \in 1..MaxWidth : workers[w].st \in {"none", "exited"}

\* `await runConcurrent(tasks, ...)` of the primary pass resolves with
\* tracks to retry: the retry pass is cut and started.
StartRetry ==
    /\ phase = "primary"
    /\ AllWorkersDone
    /\ Len(retryQueue) > 0
    /\ LET chunks == ChunkArray(retryQueue, retryChunkSize)
           k == NumWorkers(chunks, retryWidth)
           started == UNION {SeqSet(chunks[j]) : j \in 1..k}
       IN /\ workers' = StartWorkers(chunks, retryWidth)
          /\ queue' = SubSeq(chunks, k + 1, Len(chunks))
          /\ analyzingIds' = analyzingIds \cup started
          /\ submits' = Bump(submits, started)
    /\ phase' = "retry"
    /\ UNCHANGED <<impl, collab, available, chunkSize, width, retryChunkSize,
                   retryWidth, mode, raw, tracks, target, retryQueue,
                   songsProcessed, totalSongs, isEnriching, attempts, envVars, mutVars, libVars>>

\* The last runConcurrent resolves: setIsEnriching(false), "Job Complete".
Finish ==
    /\ \/ phase = "primary" /\ Len(retryQueue) = 0
       \/ phase = "retry"
    /\ AllWorkersDone
    /\ phase' = "done"
    /\ isEnriching' = FALSE
    /\ UNCHANGED <<impl, collab, available, chunkSize, width, retryChunkSize,
                   retryWidth, mode, raw, tracks, target, queue, workers,
                   retryQueue, songsProcessed, totalSongs, analyzingIds, submits,
                   attempts, envVars, mutVars, libVars>>

Next ==
    \/ \E m \in Modes : StartJob(m)
    \/ \E w \in 1..MaxWidth : \E resp \in Responses(workers[w].sub) : Complete(w, resp)
    \/ \E w \in 1..MaxWidth : Wake(w)
    \/ StartRetry
    \/ Finish

Spec == Init /\ [][Next]_vars

\* ------------------------------------------------- Mutate on its own
\* No job has been started: the state of the App before processBatch.
JobIdle ==
    /\ impl = "App"
    /\ collab = "part_005"
    /\ available = TRUE
    /\ chunkSize = 1
    /\ width = 1
    /\ retryChunkSize = 1
    /\ retryWidth = 1
    /\ mode = "full"
    /\ raw = [i \in Ids |-> BlankNode]
    /\ tracks = [i \in Ids |-> ParseTrack(raw[i])]
    /\ phase = "idle"
    /\ target = <<>>
    /\ queue = <<>>
    /\ workers = [w \in 1..MaxWidth |-> IdleWorker]
    /\ retryQueue = <<>>
    /\ songsProcessed = 0
    /\ totalSongs = 0
    /\ analyzingIds = {}
    /\ isEnriching = FALSE
    /\ submits = [i \in Ids |-> 0]
    /\ attempts = [i \in Ids |-> <<>>]
    /\ oracle = FreeOracle
    /\ file = "first"

MutIdle ==
    /\ mNode = BlankNode
    /\ mOrig = BlankNode
    /\ mLast = [mode |-> "none", analysis |-> NoAnalysis, before |-> BlankNode]
    /\ mModes = <<>>

\* A raw node of any shape, then up to MaxMutations calls of
\* updateTrackNode with any mode and any analysis.
InitMutate ==
    /\ JobIdle
    /\ mNode \in RawNodes
    /\ mOrig = mNode
    /\ mLast = [mode |-> "none", analysis |-> NoAnalysis, before |-> mNode]
    /\ mModes = <<>>
    /\ DocIdle
    /\ DupIdle

Mutate(m, analysis) ==
    /\ Len(mModes) < MaxMutations
    /\ mNode' = UpdateTrackNode(mNode, analysis, m)
    /\ mLast' = [mode |-> m, analysis |-> analysis, before |-> mNode]
    /\ mModes' = Append(mModes, m)
    /\ UNCHANGED <<mOrig, jobVars, libVars>>

NextMutate == \E m \in Modes : \E analysis \in AIAnalysis : Mutate(m, analysis)

SpecMutate == InitMutate /\ [][NextMutate]_vars

OnlyMode(m) == \A k \in 1..Len(mModes) : mModes[k] = m

\* A year the analysis really supplies: present and not the sentinel "0".
SuppliesYear(analysis) == Truthy(analysis.year) /\ analysis.year # "0"

\* C7: a MissingYear mutation changes the raw Year only if the value before
\* it was absent, empty or "0"; and a Year that is present and not "0" is
\* still the same after any sequence of MissingYear mutations.
C7_MissingYearNeverRegresses ==
    /\ (mLast.mode = "missing_year" /\ mNode.Year # mLast.before.Year)
          => mLast.before.Year \in {Absent, "", "0"}
    /\ (OnlyMode("missing_year") /\ mOrig.Year \notin {Absent, "", "0"})
          => mNode.Year = mOrig.Year

C7_Witness ==
    /\ mModes = <<"missing_year", "missing_year">>
    /\ mOrig.Year = "1999"
    /\ mLast.analysis.year = "2005"
    /\ mNode.Year = "1999"

\* C8: a MissingYear mutation leaves every raw attribute other than Year as
\* it was, and a MissingGenre mutation leaves every raw attribute other
\* than Genre as it was, whatever the analysis.
C8_ModeIsolation ==
    /\ mLast.mode = "missing_year"
          => [mNode EXCEPT !.Year = mLast.before.Year] = mLast.before
    /\ mLast.mode = "missing_genre"
          => [mNode EXCEPT !.Genre = mLast.before.Genre] = mLast.before

C8_Witness ==
    /\ mLast.mode = "missing_year"
    /\ mLast.before.Genre = "House"
    /\ mLast.before.Year = "0"
    /\ mLast.analysis.genre = "Techno"
    /\ mLast.analysis.year = "2005"
    /\ mNode.Genre = "House"
    /\ mNode.Year = "2005"

\* C9 as stated: a node whose Year is "0", mutated in any of the three modes
\* with an analysis that supplies a year, ends with a non-sentinel Year.
C9_AnyModeFillsZeroYear ==
    (mLast.mode \in Modes /\ mLast.before.has /\ mLast.before.Year = "0"
       /\ SuppliesYear(mLast.analysis))
    => mNode.Year \notin {Absent, "", "0"}

\* C9 amended: a node whose Year is "0", mutated in Full or MissingYear mode
\* with an analysis that supplies a year, ends with that year; in
\* MissingGenre mode its Year stays "0".
C9_FullAndYearModesFillZeroYear ==
    /\ (mLast.mode \in {"full", "missing_year"} /\ mLast.before.has
          /\ mLast.before.Year = "0" /\ SuppliesYear(mLast.analysis))
       => (mNode.Year = mLast.analysis.year /\ mNode.Year \notin {Absent, "", "0"})
    /\ (mLast.mode = "missing_genre" /\ mLast.before.Year = "0")
       => mNode.Year = "0"

C9_Witness ==
    /\ mLast.mode = "full"
    /\ mLast.before.Year = "0"
    /\ mLast.analysis.year = "2005"
    /\ mNode.Year = "2005"

\* C10: a Full mutation changes the raw Genre only if it was empty and the
\* raw Year only if it was empty or "0"; a non-empty Genre and a Year that
\* is neither empty nor "0" are the same after any sequence of Full
\* mutations.
C10_FullPreservesAuthoredMetadata ==
    /\ (mLast.mode = "full" /\ mNode.Genre # mLast.before.Genre)
          => mLast.before.Genre \in {Absent, ""}
    /\ (mLast.mode = "full" /\ mNode.Year # mLast.before.Year)
          => mLast.before.Year \in {Absent, "", "0"}
    /\ (OnlyMode("full") /\ mOrig.Genre \notin {Absent, ""})
          => mNode.Genre = mOrig.Genre
    /\ (OnlyMode("full") /\ mOrig.Year \notin {Absent, "", "0"})
          => mNode.Year = mOrig.Year

C10_Witness ==
    /\ mModes = <<"full", "full">>
    /\ mOrig.Genre = "House"
    /\ mOrig.Year = "1999"
    /\ mLast.analysis.genre = "Techno"
    /\ mLast.analysis.year = "2005"
    /\ mNode.Genre = "House"
    /\ mNode.Year = "1999"

\* The job with the scheduling the runtime guarantees: every pending
\* collaborator call eventually settles, every timer fires, and every
\* continuation that is ready runs.  Starting a job is up to the user.
LiveSpec ==
    /\ Spec
    /\ WF_vars(\E w \in 1..MaxWidth : \E resp \in Responses(workers[w].sub) : Complete(w, resp))
    /\ WF_vars(\E w \in 1..MaxWidth : Wake(w))
    /\ WF_vars(StartRetry)
    /\ WF_vars(Finish)

TargetIds == SeqSet(target)
PassWidth == IF phase = "retry" THEN retryWidth ELSE width
SomeFailed == \E i \in Ids : \E k \in 1..Len(attempts[i]) : attempts[i][k] = "fail"
LastOk(i) == Len(attempts[i]) > 0 /\ attempts[i][Len(attempts[i])] = "ok"

\* C1: in every state of a job the chunk tasks started and not yet settled
\* number at most the width of the running pass.
C1_InFlightWithinWidth ==
    phase \in {"primary", "retry"} => NumInFlight <= PassWidth

C1_Witness ==
    /\ phase = "primary"
    /\ width = 2
    /\ NumInFlight = 2
    /\ \E i \in Ids : attempts[i] # <<>>

\* C2: with a collaborator that fails every item on its first call and
\* succeeds on the second, the job ends with songsProcessed equal to the
\* number of tracks and no track left without a result.
C2_RetryConvergence ==
    (phase = "done"
       /\ \A i \in TargetIds : attempts[i] \in {<<"fail">>, <<"fail", "ok">>})
    => (songsProcessed = Len(target) /\ \A i \in TargetIds : LastOk(i))

\* C3: the scheduler submits each track at most twice, the collaborator's
\* year escalation goes at most one level deep, and a running job
\* eventually reaches its terminal state.
C3_BoundedAndTerminates ==
    /\ [](\A i \in Ids : submits[i] <= 2)
    /\ [](\A w \in 1..MaxWidth : workers[w].level <= 1)
    /\ (isEnriching ~> (phase = "done" /\ ~isEnriching))

C3_Witness ==
    /\ phase = "done"
    /\ mode = "missing_year"
    /\ collab = "part_003"
    /\ \E i \in Ids : submits[i] = 2

\* C4: a failed chunk (error result, empty result or rejected task) does
\* not abort the batch: at the end every target track has been submitted,
\* every track put up for retry has been submitted again, no task is left
\* in the queue, every result returned in Full mode is in its Track, and
\* the job does end.
C4_FailureNeverAborts ==
    /\ [](phase = "done" =>
            /\ queue = <<>>
            /\ \A i \in TargetIds : submits[i] >= 1
            /\ \A i \in SeqSet(retryQueue) : submits[i] = 2
            /\ \A i \in TargetIds :
                 (mode = "full" /\ LastOk(i)) => tracks[i].Analysis # NoAnalysis)
    /\ ((SomeFailed /\ isEnriching) ~> (phase = "done"))

C4_Witness ==
    /\ phase = "done"
    /\ \E i \in TargetIds : attempts[i][1] = "fail"
    /\ \E i \in TargetIds : attempts[i] = <<"ok">>
    /\ Len(target) = 3

\* C5: with no transport configured the job short-circuits: after the
\* first failure no further chunk is submitted and no retry pass runs.
C5_UnavailableShortCircuits ==
    ~available =>
        /\ phase # "retry"
        /\ \A i \in Ids : submits[i] <= 1

\* C6: after every chunk merge each Track's Year and Genre equal the Year
\* and Genre attributes of its raw node.
C6_WriteThroughConsistency ==
    \A i \in Ids :
        /\ tracks[i].Year = OrElse(raw[i].Year, "")
        /\ tracks[i].Genre = OrElse(raw[i].Genre, "")

\* C11 as stated: after one or several Full mutations with the same
\* analysis the comments contain the tag string derived from it exactly
\* once.
C11_FullAppendsTagStringOnce ==
    (mModes # <<>> /\ OnlyMode("full") /\ mNode.has
       /\ HashtagParts(mLast.analysis) # <<>>)
    => Occurrences(mNode.Comments, HashtagParts(mLast.analysis)) = 1

\* C11 amended: a Full mutation never writes the comments; they are the
\* authored value after any sequence of mutations, so the tag string occurs
\* in them exactly as often as it did before.
C11_FullLeavesComments ==
    /\ mNode.Comments = mOrig.Comments
    /\ mLast.mode = "full" =>
         Occurrences(mNode.Comments, HashtagParts(mLast.analysis))
           = Occurrences(mLast.before.Comments, HashtagParts(mLast.analysis))

C11_Witness ==
    /\ mModes = <<"full", "full">>
    /\ mOrig.Comments = "Energy: 7"
    /\ GenerateHashtags(mLast.analysis) = "#Dark #Techno #PeakHour"
    /\ mNode.Genre = "Techno"
    /\ mNode.Comments = "Energy: 7"

\* The hashtags of a tag string the model's collaborator can return.
HashtagWords(h) ==
    CASE h = "#Techno #Dark #PeakHour" -> <<"#Techno", "#Dark", "#PeakHour">>
      [] h = "#Polka" -> <<"#Polka">>
      [] OTHER -> <<>>

\* A value of the closed vocabulary V, or the sentinel.
Closed(x, V) == x \in V \cup {"Unknown"}

\* A tag string all of whose hashtags name vocabulary members (or a missing
\* tag string).
ClosedTagString(h) ==
    \A k \in 1..Len(HashtagWords(h)) :
        HashtagWords(h)[k] \in
            {ToHashtag(t) : t \in VIBE_TAGS \cup MICRO_GENRE_TAGS \cup MAIN_GENRE_TAGS
                                   \cup SITUATION_TAGS \cup {"Unknown"}}

\* C12: every Analysis a job stores has its vibe, genre and situation in the
\* vocabulary of that field or equal to "Unknown", and a tag string made of
\* vocabulary hashtags only; no raw or empty string gets through.
C12_VocabularyClosure ==
    \A i \in Ids :
        tracks[i].Analysis # NoAnalysis =>
            /\ Closed(tracks[i].Analysis.vibe, VIBE_TAGS)
            /\ Closed(tracks[i].Analysis.genre, MICRO_GENRE_TAGS \cup MAIN_GENRE_TAGS)
            /\ Closed(tracks[i].Analysis.situation, SITUATION_TAGS)
            /\ ClosedTagString(tracks[i].Analysis.hashtags)

\* ----------------------------------------------------------- findDuplicates
\* How many tracks the scanned library has.
MaxDupTracks == 3

\* if (diff <= 2)
DurationToleranceSec == 2

\* normalize(str): lower case, everything but a-z0-9 removed, on the names
\* the model ranges over.
Normalize(str) ==
    CASE str = "AC/DC" -> "acdc"
      [] str = "acdc" -> "acdc"
      [] str = "T.N.T." -> "tnt"
      [] str = "TNT" -> "tnt"
      [] str = "Other" -> "other"
      [] str = "Song" -> "song"
      [] OTHER -> ""

\* parseInt(str, 10) on the TotalTime values the model ranges over.
ParseInt(str) ==
    CASE str = "200" -> 200
      [] str = "201" -> 201
      [] str = "203" -> 203
      [] str = "210" -> 210
      [] OTHER -> 0

\* The tracks a library can hold: two spellings of one title, a track with
\* neither artist nor name, and another title; any of the durations.
DupTrackShapes ==
    { [Artist |-> n[1], Name |-> n[2], TotalTime |-> d] :
        n \in {<<"AC/DC", "T.N.T.">>, <<"acdc", "TNT">>, <<"", "">>, <<"Other", "Song">>},
        d \in {Absent, "200", "201", "203", "210"} }

Fingerprint(t) == Normalize(t.Artist) \o Normalize(t.Name)

\* parseInt(track.TotalTime || "0", 10)
Duration(t) == ParseInt(OrElse(t.TotalTime, "0"))

Abs(x) == IF x < 0 THEN 0 - x ELSE x

ConfirmedPairWithin3(a, b) ==
    /\ Duration(a) # 0
    /\ Duration(b) # 0
    /\ Abs(Duration(a) - Duration(b)) <= DurationToleranceSec + 1

\* The test of the inner loop: both durations known and at most 2 s apart.
ConfirmedPair(a, b) ==
    /\ Duration(a) # 0
    /\ Duration(b) # 0
    /\ Abs(Duration(a) - Duration(b)) <= DurationToleranceSec

\* fingerprintMap[fp]: the positions of the tracks with fingerprint fp, in
\* input order.
RECURSIVE Bucket(_, _, _)
Bucket(ts, fp, i) ==
    IF i > Len(ts) THEN <<>>
    ELSE (IF Fingerprint(ts[i]) = fp THEN <<i>> ELSE <<>>) \o Bucket(ts, fp, i + 1)

\* Object.keys(fingerprintMap): the non-empty fingerprints in order of first
\* appearance.
RECURSIVE FingerprintKeys(_, _, _)
FingerprintKeys(ts, i, seen) ==
    IF i > Len(ts) THEN <<>>
    ELSE LET fp == Fingerprint(ts[i])
         IN IF fp = "" \/ fp \in seen THEN FingerprintKeys(ts, i + 1, seen)
            ELSE <<fp>> \o FingerprintKeys(ts, i + 1, seen \cup {fp})

ScanGroupOnlyIsDup(ts, group, i, processed) ==
    LET RECURSIVE Go(_)
        Go(k) ==
            IF k > Len(group) THEN <<>>
            ELSE (IF \E j \in (k + 1)..Len(group) : ConfirmedPair(ts[group[k]], ts[group[j]])
                  THEN <<group[k]>> ELSE <<>>) \o Go(k + 1)
    IN Go(i)

\* The outer loop over one bucket from index i on: confirmedDuplicates,
\* given the processedIndices earlier iterations left.
RECURSIVE ScanGroup(_, _, _, _)
ScanGroup(ts, group, i, processed) ==
    IF i > Len(group) THEN <<>>
    ELSE LET hits == {j \in (i + 1)..Len(group) :
                         ConfirmedPair(ts[group[i]], ts[group[j]])}
             isDup == hits # {}
         IN (IF isDup \/ i \in processed THEN <<group[i]>> ELSE <<>>)
            \o ScanGroup(ts, group, i + 1, processed \cup hits)

\* duplicateIds: both sides of every confirmed pair.
DuplicateIds(ts) ==
    {i \in 1..Len(ts) :
        \E k \in 1..Len(ts) :
            /\ k # i
            /\ Fingerprint(ts[i]) # ""
            /\ Fingerprint(ts[k]) = Fingerprint(ts[i])
            /\ ConfirmedPair(ts[i], ts[k])}

\* duplicateGroups: one group per bucket of at least two tracks that has more
\* than one confirmed track.
RECURSIVE GroupsOf(_, _)
GroupsOf(ts, keys) ==
    IF keys = <<>> THEN <<>>
    ELSE LET group == Bucket(ts, Head(keys), 1)
             confirmed == IF Len(group) < 2 THEN <<>> ELSE ScanGroup(ts, group, 1, {})
         IN (IF Len(confirmed) > 1
             THEN <<[fingerprint |-> Head(keys), tracks |-> confirmed]>> ELSE <<>>)
            \o GroupsOf(ts, Tail(keys))

FindDuplicates(ts) ==
    [ran |-> TRUE, ids |-> DuplicateIds(ts),
     groups |-> GroupsOf(ts, FingerprintKeys(ts, 1, {}))]

\* A library of any of the shapes, then one scan.
InitDup ==
    /\ JobIdle
    /\ MutIdle
    /\ DocIdle
    /\ dupTracks \in [1..MaxDupTracks -> DupTrackShapes]
    /\ dupResult = [ran |-> FALSE, ids |-> {}, groups |-> <<>>]

ScanDuplicates ==
    /\ ~dupResult.ran
    /\ dupResult' = FindDuplicates(dupTracks)
    /\ UNCHANGED <<dupTracks, jobVars, mutVars, docVars>>

NextDup == ScanDuplicates

SpecDup == InitDup /\ [][NextDup]_vars

\* The tracks of the scanned library that share the fingerprint fp.
SameFingerprint(fp) == {i \in 1..Len(dupTracks) : Fingerprint(dupTracks[i]) = fp}

\* Both durations known and at most two seconds apart.
Near(i, k) ==
    /\ Duration(dupTracks[i]) # 0
    /\ Duration(dupTracks[k]) # 0
    /\ Duration(dupTracks[i]) - Duration(dupTracks[k]) \in -2..2

\* The tracks of a bucket that are on either side of a confirmed pair.
PairedIn(fp) ==
    {i \in SameFingerprint(fp) : \E k \in SameFingerprint(fp) \ {i} : Near(i, k)}

GroupIndex == 1..Len(dupResult.groups)

\* C15: the group reported for a fingerprint holds exactly the tracks of
\* that bucket that are on either side of at least one confirmed pair,
\* whether or not they are near every other member; a bucket with no
\* confirmed pair has no group, and no bucket has two.
C15_GroupMembership ==
    dupResult.ran =>
        /\ \A g \in GroupIndex :
             /\ dupResult.groups[g].fingerprint # ""
             /\ SeqSet(dupResult.groups[g].tracks)
                   = PairedIn(dupResult.groups[g].fingerprint)
             /\ Len(dupResult.groups[g].tracks)
                   = Cardinality(PairedIn(dupResult.groups[g].fingerprint))
        /\ \A g, h \in GroupIndex :
             dupResult.groups[g].fingerprint = dupResult.groups[h].fingerprint => g = h
        /\ \A i \in 1..Len(dupTracks) :
             (Fingerprint(dupTracks[i]) # "" /\ PairedIn(Fingerprint(dupTracks[i])) # {})
             => \E g \in GroupIndex :
                   dupResult.groups[g].fingerprint = Fingerprint(dupTracks[i])

C15_Witness ==
    /\ dupResult.ran
    /\ \A i \in 1..3 : Fingerprint(dupTracks[i]) = "acdctnt"
    /\ Duration(dupTracks[1]) = 200
    /\ Duration(dupTracks[2]) = 201
    /\ Duration(dupTracks[3]) = 210
    /\ Len(dupResult.groups) = 1
    /\ dupResult.groups[1].tracks = <<1, 2>>

\* C16 as stated: every group has at least two members and any two members
\* of a group have durations at most two seconds apart.
C16_GroupsPairwiseNear ==
    \A g \in GroupIndex :
        /\ Len(dupResult.groups[g].tracks) >= 2
        /\ \A i, k \in SeqSet(dupResult.groups[g].tracks) :
             Duration(dupTracks[i]) - Duration(dupTracks[k]) \in -2..2

\* C16 amended: every group has at least two members and every member has a
\* known duration at most two seconds from that of some other member of the
\* group.
C16_GroupsChainNear ==
    \A g \in GroupIndex :
        /\ Len(dupResult.groups[g].tracks) >= 2
        /\ \A i \in SeqSet(dupResult.groups[g].tracks) :
             \E k \in SeqSet(dupResult.groups[g].tracks) \ {i} : Near(i, k)

C16_Witness ==
    /\ dupResult.ran
    /\ Len(dupResult.groups) = 1
    /\ dupResult.groups[1].tracks = <<1, 2, 3>>
    /\ Duration(dupTracks[1]) = 200
    /\ Duration(dupTracks[2]) = 201
    /\ Duration(dupTracks[3]) = 203

\* ------------------------------------------------------ formatRekordboxPath
\* A location is a string, kept as the sequence of its characters; the two
\* words "file:" and "localhost" stand for their letters.
\* The longest location body the model tries.
MaxPathLen == 4

PathChars == {"/", " ", "%", "2", "0", "5", "#"}

RECURSIVE SeqsUpTo(_, _)
SeqsUpTo(S, n) ==
    IF n = 0 THEN {<<>>}
    ELSE LET shorter == SeqsUpTo(S, n - 1)
         IN shorter \cup {Append(q, c) : q \in {r \in shorter : Len(r) = n - 1}, c \in S}

LocalhostPrefix == <<"file:", "/", "/", "localhost", "/">>
TriplePrefix == <<"file:", "/", "/", "/">>

\* A TRACK without a Location attribute.
NoLocation == <<"<undefined>">>

\* The @_Location values a source file may carry.
\* Every short body behind every prefix, and some escapes of escapes.
Locations ==
    {pre \o body : pre \in {<<>>, LocalhostPrefix, TriplePrefix},
                   body \in SeqsUpTo(PathChars, MaxPathLen)}
    \cup
    {LocalhostPrefix \o <<"%", "2", "5", "2", "0">>,
     LocalhostPrefix \o <<"%", "2", "5", "2", "3">>,
     <<"%", "2", "5", "2", "5", "2", "0">>,
     TriplePrefix \o <<"%", "2", "0", "%", "2", "3", "%">>,
     LocalhostPrefix \o <<"%", "2", "3">>,
     <<"/", "%", "2", "3", " ">>,
     <<"%", "3", "5", "%", "5", "3">>}

StartsWith(str, pre) == Len(str) >= Len(pre) /\ SubSeq(str, 1, Len(pre)) = pre
Drop(str, n) == SubSeq(str, n + 1, Len(str))

HexDigits == {"0", "2", "3", "5"}

\* The character a %XY escape stands for (all below 0x80, one byte each).
HexPair(x, y) ==
    CASE x = "0" /\ y = "0" -> "<NUL>"
      [] x = "0" /\ y = "2" -> "<STX>"
      [] x = "0" /\ y = "3" -> "<ETX>"
      [] x = "0" /\ y = "5" -> "<ENQ>"
      [] x = "2" /\ y = "0" -> " "
      [] x = "2" /\ y = "2" -> "\""
      [] x = "2" /\ y = "3" -> "#"
      [] x = "2" /\ y = "5" -> "%"
      [] x = "3" /\ y = "0" -> "0"
      [] x = "3" /\ y = "2" -> "2"
      [] x = "3" /\ y = "3" -> "3"
      [] x = "3" /\ y = "5" -> "5"
      [] x = "5" /\ y = "0" -> "P"
      [] x = "5" /\ y = "2" -> "R"
      [] x = "5" /\ y = "3" -> "S"
      [] x = "5" /\ y = "5" -> "U"

\* A "%" that is not followed by two hex digits makes decodeURIComponent
\* throw.
RECURSIVE Malformed(_)
Malformed(str) ==
    IF str = <<>> THEN FALSE
    ELSE IF Head(str) = "%"
         THEN IF Len(str) >= 3 /\ str[2] \in HexDigits /\ str[3] \in HexDigits
              THEN Malformed(Drop(str, 3))
              ELSE TRUE
         ELSE Malformed(Tail(str))

\* decodeURIComponent of a well-formed string.
RECURSIVE DecodeURIComponent(_)
DecodeURIComponent(str) ==
    IF str = <<>> THEN <<>>
    ELSE IF Head(str) = "%"
         THEN <<HexPair(str[2], str[3])>> \o DecodeURIComponent(Drop(str, 3))
         ELSE <<Head(str)>> \o DecodeURIComponent(Tail(str))

\* encodeURI of one character: the reserved and unreserved ones stay.
EncodeChar(c) ==
    CASE c = " " -> <<"%", "2", "0">>
      [] c = "%" -> <<"%", "2", "5">>
      [] c = "\"" -> <<"%", "2", "2">>
      [] c = "<NUL>" -> <<"%", "0", "0">>
      [] c = "<STX>" -> <<"%", "0", "2">>
      [] c = "<ETX>" -> <<"%", "0", "3">>
      [] c = "<ENQ>" -> <<"%", "0", "5">>
      [] OTHER -> <<c>>

RECURSIVE EncodeURI(_)
EncodeURI(str) ==
    IF str = <<>> THEN <<>> ELSE EncodeChar(Head(str)) \o EncodeURI(Tail(str))

FormatRekordboxPathNoDecode(path) ==
    IF path = NoLocation \/ path = <<>> THEN <<>>
    ELSE LET stripped == IF StartsWith(path, LocalhostPrefix)
                         THEN <<"/">> \o Drop(path, Len(LocalhostPrefix))
                         ELSE IF StartsWith(path, TriplePrefix)
                         THEN <<"/">> \o Drop(path, Len(TriplePrefix))
                         ELSE path
             absolute == IF StartsWith(stripped, <<"/">>) THEN stripped
                         ELSE <<"/">> \o stripped
         IN <<"file:", "/", "/", "localhost">> \o EncodeURI(absolute)

\* formatRekordboxPath(path)
FormatRekordboxPath(path) ==
    IF path = NoLocation \/ path = <<>> THEN <<>>
    ELSE LET cleanPath == IF Malformed(path) THEN path ELSE DecodeURIComponent(path)
             stripped == IF StartsWith(cleanPath, LocalhostPrefix)
                         THEN <<"/">> \o Drop(cleanPath, Len(LocalhostPrefix))
                         ELSE IF StartsWith(cleanPath, TriplePrefix)
                         THEN <<"/">> \o Drop(cleanPath, Len(TriplePrefix))
                         ELSE cleanPath
             absolute == IF StartsWith(stripped, <<"/">>) THEN stripped
                         ELSE <<"/">> \o stripped
         IN <<"file:", "/", "/", "localhost">> \o EncodeURI(absolute)

\* -------------------------------------------------------- exportRekordboxXML
\* How many operations are applied to one document.
MaxOps == 3

\* A child of COLLECTION: a TRACK with its attributes and child nodes
\* (TEMPO, POSITION_MARK), or some other node.  has is FALSE when the node
\* carries no attributes.
TrackNode(year, genre, location) ==
    [tag |-> "TRACK", has |-> TRUE, Year |-> year, Genre |-> genre,
     Comments |-> "Energy: 7", Name |-> "Song", Location |-> location,
     Rating |-> "255", kids |-> <<"TEMPO", "POSITION_MARK">>]

BareTrackNode ==
    [tag |-> "TRACK", has |-> FALSE, Year |-> Absent, Genre |-> Absent,
     Comments |-> Absent, Name |-> Absent, Location |-> NoLocation,
     Rating |-> Absent, kids |-> <<>>]

OtherNode ==
    [tag |-> "OTHER", has |-> TRUE, Year |-> Absent, Genre |-> Absent,
     Comments |-> Absent, Name |-> Absent, Location |-> <<"/", " ">>,
     Rating |-> Absent, kids |-> <<>>]

\* The pre-pass of exportRekordboxXML over one child of COLLECTION.
SanitizeLocation(child) ==
    IF child.tag = "TRACK" /\ child.has
          /\ child.Location # NoLocation /\ child.Location # <<>>
    THEN [child EXCEPT !.Location = FormatRekordboxPath(child.Location)]
    ELSE child

\* builder.build(fullData): the text is a function of the tree it is given.
BuildXml(coll, pl) == [COLLECTION |-> coll, PLAYLISTS |-> pl]

\* exportRekordboxXML(fullData): the locations are rewritten in place, the
\* tree is serialized.
Export ==
    /\ nOps < MaxOps
    /\ collection # <<>>
    /\ collection' = [i \in 1..Len(collection) |-> SanitizeLocation(collection[i])]
    /\ docLog' = [docLog EXCEPT !.op = "export", !.prevOp = docLog.op,
                                !.out = BuildXml(collection', playlists),
                                !.prevOut = docLog.out,
                                !.before = <<collection, playlists>>]
    /\ nOps' = nOps + 1
    /\ UNCHANGED <<docTracks, playlists, jobVars, mutVars, dupVars>>

\* A document with one track whose location is any of Locations, exported
\* again and again.
InitExport ==
    /\ JobIdle
    /\ MutIdle
    /\ DupIdle
    /\ \E loc \in Locations \cup {NoLocation} :
          collection = <<TrackNode("1999", "House", loc), BareTrackNode, OtherNode>>
    /\ docTracks = <<>>
    /\ playlists = [present |-> TRUE, kids |-> <<>>]
    /\ docLog = [NoLog EXCEPT !.orig = <<collection, playlists>>]
    /\ nOps = 0

NextExport == Export

SpecExport == InitExport /\ [][NextExport]_vars

\* C17: normalizing a location twice gives what normalizing it once gives,
\* and an Export that follows an Export returns the same text and leaves
\* the document as the first left it.
C17_ExportIdempotent ==
    /\ \A i \in 1..Len(collection) :
         FormatRekordboxPath(FormatRekordboxPath(collection[i].Location))
            = FormatRekordboxPath(collection[i].Location)
    /\ (docLog.op = "export" /\ docLog.prevOp = "export")
         => /\ docLog.out = docLog.prevOut
            /\ <<collection, playlists>> = docLog.before

C17_Witness ==
    /\ docLog.op = "export"
    /\ docLog.prevOp = "export"
    /\ docLog.orig[1][1].Location = TriplePrefix \o <<"%", "2", "5", " ">>
    /\ collection[1].Location =
          <<"file:", "/", "/", "localhost", "/", "%", "2", "5", "%", "2", "0">>

\* ---------------------------------------------------- generateSmartPlaylists
\* A NODE of the playlist tree: a folder (Type 0, Count, child nodes) or a
\* playlist (Type 1, Entries, track keys).  has is FALSE for a node without
\* attributes.
\* createFolderNode(name, children)
CreateFolderNode(name, children) ==
    [name |-> name, type |-> "0", count |-> ToString(Len(children)),
     entries |-> Absent, has |-> TRUE, kids |-> children, keys |-> <<>>]

\* createPlaylistNode(name, trackIds)
CreatePlaylistNode(name, trackIds) ==
    [name |-> name, type |-> "1", count |-> Absent,
     entries |-> ToString(Len(trackIds)), has |-> TRUE, kids |-> <<>>,
     keys |-> trackIds]

\* Object.keys(map).sort() for each dimension: the vocabulary in string
\* order.
SortedVibes == <<"Dark", "Groovy">>
SortedGenres == <<"House", "Techno", "Trap">>
SortedSituations == <<"Peak Hour", "Warm Up">>

\* map[value]: the ids of the tracks whose Analysis has that value in the
\* dimension, in track order.
RECURSIVE IdsWith(_, _, _, _)
IdsWith(ts, dim, value, i) ==
    IF i > Len(ts) THEN <<>>
    ELSE (IF ts[i].Analysis # NoAnalysis /\ ts[i].Analysis[dim] = value
          THEN <<ts[i].TrackID>> ELSE <<>>) \o IdsWith(ts, dim, value, i + 1)

\* The playlists of one dimension: one per value some track has, sorted.
RECURSIVE PlaylistsFor(_, _, _)
PlaylistsFor(ts, dim, values) ==
    IF values = <<>> THEN <<>>
    ELSE LET ids == IdsWith(ts, dim, Head(values), 1)
         IN (IF ids # <<>> THEN <<CreatePlaylistNode(Head(values), ids)>> ELSE <<>>)
            \o PlaylistsFor(ts, dim, Tail(values))

\* createSubFolderWithPlaylists(folderName, map)
CreateSubFolderWithPlaylists(folderName, ts, dim, values) ==
    CreateFolderNode(folderName, PlaylistsFor(ts, dim, values))

RECURSIVE SavedPlaylistNodes(_)
SavedPlaylistNodes(cps) ==
    IF cps = <<>> THEN <<>>
    ELSE <<CreatePlaylistNode(Head(cps).name, Head(cps).trackIds)>>
         \o SavedPlaylistNodes(Tail(cps))

\* An aiRootNode whose duplicates playlist is pushed instead of unshifted.
AiRootNodeDuplicatesLast(ts, duplicateIds, customPlaylists) ==
    LET base == <<CreateSubFolderWithPlaylists("Vibes", ts, "vibe", SortedVibes),
                  CreateSubFolderWithPlaylists("Genres", ts, "genre", SortedGenres),
                  CreateSubFolderWithPlaylists("Situations", ts, "situation",
                                               SortedSituations)>>
        saved == IF Len(customPlaylists) > 0
                 THEN Append(base, CreateFolderNode("SAVED_SEARCHES",
                                       SavedPlaylistNodes(customPlaylists)))
                 ELSE base
        all == IF Len(duplicateIds) > 0
               THEN Append(saved, CreatePlaylistNode("[POSSIBLE DUPLICATES]", duplicateIds))
               ELSE saved
    IN CreateFolderNode("AI_GENERATED", all)

\* aiRootNode
AiRootNode(ts, duplicateIds, customPlaylists) ==
    LET base == <<CreateSubFolderWithPlaylists("Vibes", ts, "vibe", SortedVibes),
                  CreateSubFolderWithPlaylists("Genres", ts, "genre", SortedGenres),
                  CreateSubFolderWithPlaylists("Situations", ts, "situation",
                                               SortedSituations)>>
        saved == IF Len(customPlaylists) > 0
                 THEN Append(base, CreateFolderNode("SAVED_SEARCHES",
                                       SavedPlaylistNodes(customPlaylists)))
                 ELSE base
        all == IF Len(duplicateIds) > 0
               THEN <<CreatePlaylistNode("[POSSIBLE DUPLICATES]", duplicateIds)>> \o saved
               ELSE saved
    IN CreateFolderNode("AI_GENERATED", all)

\* children.findIndex(n => n[':@']?.['@_Name'] === 'AI_GENERATED'), 0 for
\* not found.
ExistingIndex(children) ==
    LET found == {k \in 1..Len(children) :
                     children[k].has /\ children[k].name = "AI_GENERATED"}
    IN IF found = {} THEN 0 ELSE CHOOSE k \in found : \A j \in found : k <= j

RemoveAt(children, k) ==
    SubSeq(children, 1, k - 1) \o SubSeq(children, k + 1, Len(children))

RemoveExistingFirstChild(children) ==
    IF ExistingIndex(children) > 0 THEN RemoveAt(children, 1) ELSE children

\* if (existingIndex >= 0) children.splice(existingIndex, 1)
RemoveExisting(children) ==
    IF ExistingIndex(children) > 0
    THEN RemoveAt(children, ExistingIndex(children)) ELSE children

WithChildrenStaleCount(rootNode, children) ==
    [rootNode EXCEPT !.kids = children]

\* The root node with its new child list; its Count follows when the node
\* has attributes.
WithChildren(rootNode, children) ==
    IF rootNode.has
    THEN [rootNode EXCEPT !.kids = children, !.count = ToString(Len(children))]
    ELSE [rootNode EXCEPT !.kids = children]

\* Step 4 of generateSmartPlaylists: the PLAYLISTS section after aiRootNode
\* has been put in.
Inject(pl, aiRootNode) ==
    IF ~pl.present \/ pl.kids = <<>>
    THEN [present |-> TRUE, kids |-> <<aiRootNode>>]
    ELSE LET rootNode == pl.kids[1]
             children == Append(RemoveExisting(rootNode.kids), aiRootNode)
         IN [pl EXCEPT !.kids[1] = WithChildren(rootNode, children)]

\* ------------------------------------------------- a document and its tracks
\* Playlists a user made, and an AI_GENERATED folder an earlier export left.
UserPlaylist(name) == CreatePlaylistNode(name, <<1>>)
OldAiFolder ==
    CreateFolderNode("AI_GENERATED",
        <<CreateFolderNode("Vibes", <<CreatePlaylistNode("Dark", <<2>>)>>)>>)

\* The ROOT folder of a source file with the children given; an exported
\* file may carry a Count that is off, or a root without attributes.
RootNode(children, count, has) ==
    [name |-> IF has THEN "ROOT" ELSE Absent, type |-> IF has THEN "0" ELSE Absent,
     count |-> IF has THEN count ELSE Absent, entries |-> Absent, has |-> has,
     kids |-> children, keys |-> <<>>]

\* The PLAYLISTS sections a source file may have: none, an empty one, and a
\* root folder with or without playlists and an earlier AI_GENERATED folder.
PlaylistShapes ==
    { [present |-> FALSE, kids |-> <<>>],
      [present |-> TRUE, kids |-> <<>>],
      [present |-> TRUE, kids |-> <<RootNode(<<>>, "0", TRUE)>>],
      [present |-> TRUE, kids |-> <<RootNode(<<UserPlaylist("Mine")>>, "1", TRUE)>>],
      [present |-> TRUE, kids |-> <<RootNode(<<UserPlaylist("Mine")>>, "3", TRUE)>>],
      [present |-> TRUE,
       kids |-> <<RootNode(<<UserPlaylist("Mine"), OldAiFolder, UserPlaylist("Yours")>>,
                           "3", TRUE)>>],
      [present |-> TRUE, kids |-> <<RootNode(<<UserPlaylist("Mine")>>, Absent, FALSE)>>] }

\* The Track parseRekordboxXML makes of the TRACK at position i.
DocTrack(coll, i) ==
    [TrackID |-> i, Year |-> OrElse(coll[i].Year, ""),
     Genre |-> OrElse(coll[i].Genre, ""), Analysis |-> NoAnalysis]

\* The results a job may hand to Mutate and to the Track.
DocAnalyses ==
    { [vibe |-> "Dark", genre |-> "Techno", situation |-> "Peak Hour",
       year |-> "2005", hashtags |-> Absent],
      [vibe |-> "Groovy", genre |-> "Unknown", situation |-> "Peak Hour",
       year |-> "0", hashtags |-> Absent] }

DuplicateChoices == {<<>>, <<1, 2>>}
CustomChoices == {<<>>, <<[name |-> "My Search", trackIds |-> <<2>>]>>}

\* A loaded file: three tracks (one without attributes), a node that is no
\* TRACK, and a PLAYLISTS section of any of the shapes.
InitDoc ==
    /\ JobIdle
    /\ MutIdle
    /\ DupIdle
    /\ collection = <<TrackNode("0", "", <<"/", " ">>),
                      TrackNode("1999", "House", TriplePrefix \o <<"%", "2", "0">>),
                      OtherNode, BareTrackNode>>
    /\ docTracks = <<DocTrack(collection, 1), DocTrack(collection, 2),
                     DocTrack(collection, 4)>>
    /\ playlists \in PlaylistShapes
    /\ docLog = [NoLog EXCEPT !.orig = <<collection, playlists>>]
    /\ nOps = 0

\* One result of a job merged: updateTrackNode on the raw node of the track
\* and the setTracks update of its Track.
DocMutate(k, analysis, m) ==
    /\ nOps < MaxOps
    /\ k \in 1..Len(docTracks)
    /\ LET i == docTracks[k].TrackID
       IN collection' = [collection EXCEPT ![i] = UpdateTrackNode(collection[i], analysis, m)]
    /\ docTracks' = [docTracks EXCEPT ![k] = MergeTrackApp(docTracks[k], analysis, m)]
    /\ docLog' = [docLog EXCEPT !.op = "mutate", !.prevOp = docLog.op,
                                !.before = <<collection, playlists>>]
    /\ nOps' = nOps + 1
    /\ UNCHANGED <<playlists, jobVars, mutVars, dupVars>>

\* generateSmartPlaylists(fullData, tracks, duplicateIds, customPlaylists)
Synthesize(duplicateIds, customPlaylists) ==
    /\ nOps < MaxOps
    /\ collection # <<>>
    /\ LET aiRootNode == AiRootNode(docTracks, duplicateIds, customPlaylists)
       IN /\ playlists' = Inject(playlists, aiRootNode)
          /\ docLog' = [docLog EXCEPT !.op = "synthesize", !.prevOp = docLog.op,
                                      !.before = <<collection, playlists>>,
                                      !.synth = <<aiRootNode>>,
                                      !.args = <<duplicateIds, customPlaylists>>]
    /\ nOps' = nOps + 1
    /\ UNCHANGED <<collection, docTracks, jobVars, mutVars, dupVars>>

NextDoc ==
    \/ \E k \in 1..3 : \E analysis \in DocAnalyses : \E m \in Modes :
          DocMutate(k, analysis, m)
    \/ \E duplicateIds \in DuplicateChoices : \E customPlaylists \in CustomChoices :
          Synthesize(duplicateIds, customPlaylists)
    \/ Export

SpecDoc == InitDoc /\ [][NextDoc]_vars

\* How many nodes of the trees in nodes (at any depth) carry the name.
RECURSIVE CountNamed(_, _)
CountNamed(nodes, name) ==
    IF nodes = <<>> THEN 0
    ELSE (IF Head(nodes).has /\ Head(nodes).name = name THEN 1 ELSE 0)
         + CountNamed(Head(nodes).kids, name)
         + CountNamed(Tail(nodes), name)

\* The nodes of the trees in nodes, at any depth.
RECURSIVE NodesIn(_)
NodesIn(nodes) ==
    IF nodes = <<>> THEN {}
    ELSE {Head(nodes)} \cup NodesIn(Head(nodes).kids) \cup NodesIn(Tail(nodes))

\* The nodes of the synthesized subtrees.
SynthesizedNodes ==
    UNION { {n} \cup NodesIn(n.kids) :
              n \in {x \in NodesIn(playlists.kids) : x.has /\ x.name = "AI_GENERATED"} }

\* A folder's Count is its number of children, a playlist's Entries its
\* number of track keys.
CountsAgree(n) ==
    /\ (n.has /\ n.type = "0") => n.count = ToString(Len(n.kids))
    /\ (n.has /\ n.type = "1") => n.entries = ToString(Len(n.keys))

\* The trees in nodes without the synthesized folders and without the
\* cached counts.
RECURSIVE WithoutSynthesized(_)
WithoutSynthesized(nodes) ==
    IF nodes = <<>> THEN <<>>
    ELSE IF Head(nodes).has /\ Head(nodes).name = "AI_GENERATED"
         THEN WithoutSynthesized(Tail(nodes))
         ELSE <<[Head(nodes) EXCEPT !.kids = WithoutSynthesized(Head(nodes).kids),
                                    !.count = Absent]>>
              \o WithoutSynthesized(Tail(nodes))

\* C13: once Synthesize has run, however often and on whatever document,
\* the playlist tree holds exactly one subtree named AI_GENERATED, and it is
\* the one the last call built.
C13_SynthesisReplaces ==
    docLog.synth # <<>> =>
        /\ CountNamed(playlists.kids, "AI_GENERATED") = 1
        /\ docLog.synth[1] \in NodesIn(playlists.kids)

\* C14: once Synthesize has run, the Count of the playlist root is its
\* number of children, and every synthesized folder and playlist has the
\* Count or Entries of what it holds.
C14_CountsMatchChildren ==
    docLog.synth # <<>> =>
        /\ playlists.kids # <<>>
        /\ CountsAgree(playlists.kids[1])
        /\ \A n \in SynthesizedNodes : CountsAgree(n)

C14_Witness ==
    /\ docLog.op = "synthesize"
    /\ docLog.orig[2].kids # <<>>
    /\ docLog.orig[2].kids[1].count = "3"
    /\ Len(docLog.orig[2].kids[1].kids) = 1
    /\ playlists.kids[1].count = "2"
    /\ Len(playlists.kids[1].kids[2].kids) = 4

\* C18: whatever Mutate, Synthesize and Export calls were made, the
\* collection has the children it had, in the order it had them, each with
\* its child nodes and with every attribute but Year, Genre and Location as
\* loaded; and the playlist tree without the synthesized folder is as
\* loaded.
C18_LosslessFrame ==
    /\ Len(collection) = Len(docLog.orig[1])
    /\ \A i \in 1..Len(collection) :
         [collection[i] EXCEPT !.Year = docLog.orig[1][i].Year,
                               !.Genre = docLog.orig[1][i].Genre,
                               !.Location = docLog.orig[1][i].Location]
            = docLog.orig[1][i]
    /\ WithoutSynthesized(playlists.kids) = WithoutSynthesized(docLog.orig[2].kids)

C18_Witness ==
    /\ docLog.op = "export"
    /\ docLog.prevOp = "synthesize"
    /\ collection[1].Year = "2005"
    /\ collection[1].Location # docLog.orig[1][1].Location
    /\ Len(docLog.orig[2].kids) = 1
    /\ Len(docLog.orig[2].kids[1].kids) = 3
    /\ Len(playlists.kids[1].kids) = 3
    /\ playlists.kids[1].kids[1].name = "Mine"
    /\ playlists.kids[1].kids[2].name = "Yours"
    /\ playlists.kids[1].kids[3] = docLog.synth[1]

\* ------------------------------------------------- progress telemetry
\* A result for track i was received in some generateTagsBatch call of the
\* job, in either pass.
Resolved(i) == \E k \in 1..Len(attempts[i]) : attempts[i][k] = "ok"

Unresolved == {i \in TargetIds : ~Resolved(i)}

\* The retry pass ran: failedTracks / retryQueue is never emptied.
RetryPassRan == retryQueue # <<>>

\* C19: in every state of a job songsProcessed is at most totalSongs, and
\* it counts every track at most once and only tracks for which a result
\* was received: it never exceeds the number of target tracks that have a
\* result.
C19_NeverDoubleCounts ==
    /\ songsProcessed <= totalSongs
    /\ songsProcessed <= Cardinality(TargetIds \ Unresolved)

\* C20: a job whose retry pass leaves tracks without a result still ends
\* (isEnriching false, "Job Complete"), and at the end the unresolved
\* count totalSongs - songsProcessed is non-zero and equals the number of
\* tracks that received no result.
C20_BestEffortCompletion ==
    /\ [](phase = "done" /\ RetryPassRan /\ Unresolved # {} =>
            /\ ~isEnriching
            /\ totalSongs - songsProcessed > 0
            /\ totalSongs - songsProcessed = Cardinality(Unresolved))
    /\ (phase = "retry" ~> phase = "done")

\* ------------------------------------------------------- the retry queue
\* The chunks of the primary pass.
PrimaryChunks == ChunkArray(target, chunkSize)

\* The first call for chunk c has settled and gave no result for any of its
\* tracks: an error, a rejection, or an empty result map.
ChunkFailed(c) ==
    \A i \in SeqSet(c) : attempts[i] # <<>> /\ attempts[i][1] = "fail"

\* C21: a chunk that failed as a whole is queued for the retry pass and not
\* resubmitted at once: during the primary pass no track is submitted a
\* second time, and once the primary pass is over every track of a failed
\* chunk is in the retry queue.
C21_FailedChunkQueuedForRetry ==
    /\ phase = "primary" => \A i \in Ids : submits[i] <= 1
    /\ phase \in {"retry", "done"} =>
         \A k \in 1..Len(PrimaryChunks) :
            ChunkFailed(PrimaryChunks[k]) =>
                SeqSet(PrimaryChunks[k]) \subseteq SeqSet(retryQueue)

\* The first call for chunk c has settled with results for some of its
\* tracks and none for the others.
ChunkPartial(c) ==
    /\ \A i \in SeqSet(c) : attempts[i] # <<>>
    /\ \E i \in SeqSet(c) : attempts[i][1] = "ok"
    /\ \E i \in SeqSet(c) : attempts[i][1] = "fail"

\* C22: when a call returns results for only some of the requested ids,
\* once the primary pass is over the retry queue holds, of that chunk,
\* exactly the tracks that got no result.
C22_MissingIdsQueuedForRetry ==
    phase \in {"retry", "done"} =>
        \A k \in 1..Len(PrimaryChunks) :
            ChunkPartial(PrimaryChunks[k]) =>
                \A i \in SeqSet(PrimaryChunks[k]) :
                    (i \in SeqSet(retryQueue)) <=> (attempts[i][1] = "fail")

\* ------------------------------------------- the passes' chunk and width
\* The chunk size and concurrency width each revision of processBatch
\* passes to chunkArray and runConcurrent, per deployment profile.
CHUNK_SIZE(rev, isElectron) ==
    IF rev # "App" THEN 100 ELSE (IF isElectron THEN 200 ELSE 200)

CONCURRENCY(rev, isElectron) ==
    IF rev # "App" THEN 8 ELSE (IF isElectron THEN 2 ELSE 8)

RETRY_CHUNK_SIZE(rev) == IF rev # "App" THEN 50 ELSE 50

RetryConcurrency(rev) == IF rev # "App" THEN 4 ELSE 8

\* C23: in every deployment profile the retry pass of the running revision
\* has a strictly smaller chunk size and a strictly lower concurrency
\* width than its primary pass.
C23_RetryPassSmallerAndNarrower ==
    \A isElectron \in BOOLEAN :
        /\ RETRY_CHUNK_SIZE(impl) < CHUNK_SIZE(impl, isElectron)
        /\ RetryConcurrency(impl) < CONCURRENCY(impl, isElectron)

\* ------------------------------------------------------------- escalation
\* The strategy parameters of the transport request worker w awaits:
\* part_003 picks the model and the search grounding from isRetry;
\* part_005 has one model and no grounding.
Strategy(w) ==
    IF collab = "part_003"
    THEN [model |-> IF IsRetry(w) THEN "gemini-2.5-pro" ELSE "gemini-3-flash-preview",
          googleSearch |-> IsRetry(w)]
    ELSE [model |-> "gemini-3-flash", googleSearch |-> FALSE]

\* The strategy of the requests of the primary pass.
PrimaryStrategy ==
    IF collab = "part_003"
    THEN [model |-> "gemini-3-flash-preview", googleSearch |-> FALSE]
    ELSE [model |-> "gemini-3-flash", googleSearch |-> FALSE]

Escalated(w) == Strategy(w).model = "gemini-2.5-pro" /\ Strategy(w).googleSearch

InFlightWorkers == {w \in 1..MaxWidth : workers[w].st = "inflight"}

\* C24: escalation belongs to the year mode alone: every request of the
\* retry pass of a MissingYear job carries the escalated model and search
\* grounding, and every request of a Full or MissingGenre job, retry pass
\* included, carries the strategy of the primary pass.
C24_EscalationOnlyForYearMode ==
    \A w \in InFlightWorkers :
        /\ (mode = "missing_year" /\ phase = "retry") => Escalated(w)
        /\ mode # "missing_year" => Strategy(w) = PrimaryStrategy

\* ---------------------------------------------------- first come, first served
\* The tasks handed to runConcurrent in the retry pass.
RetryChunks == ChunkArray(retryQueue, retryChunkSize)

\* The tasks of the running pass, in the order they were submitted.
PassChunks == IF phase = "primary" THEN PrimaryChunks ELSE RetryChunks

\* Task c of the running pass has been started: its tracks have been
\* submitted once in the primary pass, a second time in the retry pass.
Started(c) ==
    \A i \in SeqSet(c) : submits[i] >= (IF phase = "primary" THEN 1 ELSE 2)

NumStarted == Cardinality({k \in 1..Len(PassChunks) : Started(PassChunks[k])})

\* C25: the pool serves its tasks in submission order and each one once:
\* while a pass runs, the started tasks are the first ones of the list,
\* the queue holds exactly the others in order, no track has been
\* submitted more often than once per pass, and when the workers are done
\* every task has been started.
C25_FirstSubmittedFirstServed ==
    phase \in {"primary", "retry"} =>
        /\ \A j \in 1..Len(PassChunks) :
               Started(PassChunks[j]) => \A i \in 1..j : Started(PassChunks[i])
        /\ queue = SubSeq(PassChunks, NumStarted + 1, Len(PassChunks))
        /\ \A i \in Ids : submits[i] <= (IF phase = "primary" THEN 1 ELSE 2)
        /\ AllWorkersDone => NumStarted = Len(PassChunks)

C25_Witness ==
    /\ phase = "primary"
    /\ width = 2
    /\ Len(PrimaryChunks) = 3
    /\ workers[1].st = "inflight" /\ workers[1].chunk = PrimaryChunks[1]
    /\ workers[2].st = "inflight" /\ workers[2].chunk = PrimaryChunks[3]
    /\ attempts[2] # <<>>

\* ------------------------------------------------ what Synthesize builds
\* The folder of each dimension and the Analysis field it groups by.
DimensionFolders == <<"Vibes", "Genres", "Situations">>
DimensionFields == <<"vibe", "genre", "situation">>

\* Array.prototype.sort() without a comparator: the tag names in string
\* order.
NamesInOrder == <<"Dark", "Groovy", "House", "Peak Hour", "Techno", "Trap", "Warm Up">>
NameRank(name) == CHOOSE k \in 1..Len(NamesInOrder) : NamesInOrder[k] = name

\* The positions of the tracks that carry value v in the dimension.
Carriers(dim, v) ==
    {k \in 1..Len(docTracks) :
        docTracks[k].Analysis # NoAnalysis /\ docTracks[k].Analysis[dim] = v}

\* The distinct values of the dimension among the tracks, "Unknown" and
\* empty values left out.
ValuesOf(dim) ==
    {docTracks[k].Analysis[dim] :
        k \in {j \in 1..Len(docTracks) : docTracks[j].Analysis # NoAnalysis}}
    \ {"Unknown", "", Absent}

\* The position in docTracks of the track with the id.
PositionOf(id) == CHOOSE k \in 1..Len(docTracks) : docTracks[k].TrackID = id

\* Playlist node p references exactly the tracks at the positions in ps,
\* in input order.
ReferencesInOrder(p, ps) ==
    /\ p.type = "1"
    /\ {PositionOf(p.keys[a]) : a \in 1..Len(p.keys)} = ps
    /\ Len(p.keys) = Cardinality(ps)
    /\ \A a, b \in 1..Len(p.keys) : a < b => PositionOf(p.keys[a]) < PositionOf(p.keys[b])

\* Folder f is the folder of the dimension: one playlist per distinct
\* value, sorted by name, each with the tracks that carry the value.
DimensionFolderOk(f, d) ==
    /\ f.name = DimensionFolders[d]
    /\ f.type = "0"
    /\ {f.kids[k].name : k \in 1..Len(f.kids)} = ValuesOf(DimensionFields[d])
    /\ Len(f.kids) = Cardinality(ValuesOf(DimensionFields[d]))
    /\ \A k, l \in 1..Len(f.kids) :
          k < l => NameRank(f.kids[k].name) < NameRank(f.kids[l].name)
    /\ \A k \in 1..Len(f.kids) :
          ReferencesInOrder(f.kids[k], Carriers(DimensionFields[d], f.kids[k].name))

\* C26: the folder Synthesize has just built holds, in this order, the
\* duplicates playlist if duplicate ids were given, one folder per
\* dimension with one playlist per distinct tag value other than
\* "Unknown", sorted by name and referencing exactly the tracks with that
\* value in input order, and the saved-selections folder if any selection
\* was given.
C26_SynthesizedStructure ==
    docLog.op = "synthesize" =>
        LET root == docLog.synth[1]
            duplicateIds == docLog.args[1]
            customPlaylists == docLog.args[2]
            off == IF duplicateIds # <<>> THEN 1 ELSE 0
            n == Len(root.kids)
        IN /\ n = 3 + off + (IF customPlaylists # <<>> THEN 1 ELSE 0)
           /\ duplicateIds # <<>> =>
                 /\ root.kids[1].name = "[POSSIBLE DUPLICATES]"
                 /\ root.kids[1].type = "1"
                 /\ root.kids[1].keys = duplicateIds
           /\ \A d \in 1..3 : DimensionFolderOk(root.kids[off + d], d)
           /\ customPlaylists # <<>> =>
                 /\ root.kids[n].name = "SAVED_SEARCHES"
                 /\ root.kids[n].type = "0"
                 /\ Len(root.kids[n].kids) = Len(customPlaylists)
                 /\ \A k \in 1..Len(customPlaylists) :
                       /\ root.kids[n].kids[k].name = customPlaylists[k].name
                       /\ root.kids[n].kids[k].keys = customPlaylists[k].trackIds

C26_Witness ==
    /\ docLog.op = "synthesize"
    /\ docLog.args[1] # <<>>
    /\ docLog.args[2] # <<>>
    /\ Len(docLog.synth[1].kids[2].kids) = 2
    /\ docLog.synth[1].kids[4].kids[1].keys = <<1, 2>>
    /\ Len(docLog.synth[1].kids[3].kids) = 1
    /\ \E k \in 1..Len(docTracks) :
          docTracks[k].Analysis # NoAnalysis /\ docTracks[k].Analysis.genre = "Unknown"

\* ------------------------------------------------- completion order
\* The job against a collaborator that answers per track from a table.
InitOracle == \E orc \in Oracles : InitWith(orc) /\ available

SpecOracle == InitOracle /\ [][Next]_vars

\* What the collaborator of the run returns for track i.
OracleResult(i) ==
    IF oracle[i] = NoItem THEN NoAnalysis ELSE ToAnalysis(oracle[i], collab, mode)

\* The first call for track i has settled.
Settled(i) == i \in TargetIds /\ attempts[i] # <<>>

\* Track i and its raw node once its chunk has been merged, whatever was
\* merged before or after it.
MergedTrack(i) ==
    IF impl = "App" THEN MergeTrackApp(FirstTracks[i], OracleResult(i), mode)
    ELSE MergeTrackPart000(FirstTracks[i], OracleResult(i), mode)

MergedNode(i) == UpdateTrackNode(FirstFile[i], OracleResult(i), mode)

\* The final songsProcessed: App.tsx counts the tracks with a result,
\* part_000 and part_001 the tracks of the chunks with a result.
TotalProcessed ==
    IF impl = "App"
    THEN Cardinality({i \in TargetIds : Has([j \in Ids |-> OracleResult(j)], i)})
    ELSE Cardinality(UNION {SeqSet(PrimaryChunks[k]) :
            k \in {c \in 1..Len(PrimaryChunks) :
                     \E i \in SeqSet(PrimaryChunks[c]) : oracle[i] # NoItem}})

\* C27: with a collaborator whose answer depends on the track alone, the
\* Track records, the raw tree and the telemetry total do not depend on
\* the order in which chunks complete: at every moment each track and its
\* raw node are either as loaded or, once its chunk has settled with a
\* result for it, what the merge of that result alone makes of them, and
\* the final count is fixed by the chunks and the answers.
C27_CompletionOrderIndependent ==
    /\ \A i \in Ids :
          LET got == Settled(i) /\ oracle[i] # NoItem
          IN /\ tracks[i] = IF got THEN MergedTrack(i) ELSE FirstTracks[i]
             /\ raw[i] = IF got THEN MergedNode(i) ELSE FirstFile[i]
    /\ phase = "done" => songsProcessed = TotalProcessed

C27_Witness ==
    /\ phase = "primary"
    /\ Len(PrimaryChunks) = 2
    /\ workers[1].st = "inflight" /\ workers[1].chunk = PrimaryChunks[1]
    /\ \A i \in TargetIds : oracle[i] \in Items
    /\ \E i \in SeqSet(PrimaryChunks[2]) : Settled(i) /\ raw[i] # FirstFile[i]

\* ------------------------------------------------- unrequested items
\* The job against a service whose response may carry an item for an id
\* that was not in the request.
NextForeign ==
    \/ \E m \in Modes : StartJob(m)
    \/ \E w \in 1..MaxWidth :
          \E resp \in Responses(workers[w].sub) \cup ForeignResponses(workers[w].sub) :
             Complete(w, resp)
    \/ \E w \in 1..MaxWidth : Wake(w)
    \/ StartRetry
    \/ Finish

\* The widest primary pass and the narrowest retry pass, every revision,
\* collaborator and chunk size.
InitForeign ==
    /\ Init
    /\ available
    /\ width = MaxWidth
    /\ retryChunkSize = 1
    /\ retryWidth = 1

SpecForeign == InitForeign /\ [][NextForeign]_vars

\* C28: an item for an id that was not requested has no effect: a track
\* no settled chunk contained has its Track record and its raw node as
\* they were loaded.
C28_UnrequestedItemsIgnored ==
    \A i \in Ids :
        attempts[i] = <<>> =>
            /\ tracks[i] = FirstTracks[i]
            /\ raw[i] = FirstFile[i]

\* ------------------------------------------------------- in-flight marks
\* C29: the ids marked as being analysed are ids of chunks in flight, and
\* when the job has ended none is left, whatever the calls did.
C29_NoIdLeftInFlight ==
    /\ analyzingIds \subseteq InFlightIds(workers)
    /\ phase = "done" => analyzingIds = {}

\* ------------------------------------------------- a file loaded mid-job
\* CLEAR while a job runs: reset() of App.tsx, the inline handler of
\* part_000.  Nothing cancels the job.
Reset ==
    /\ file = "first"
    /\ phase \in {"primary", "retry"}
    /\ file' = "none"
    /\ tracks' = NoTracks
    /\ IF impl = "App"
       THEN /\ raw' = NoTree
            /\ analyzingIds' = {}
            /\ isEnriching' = FALSE
            /\ songsProcessed' = 0
            /\ totalSongs' = 0
       ELSE UNCHANGED <<raw, analyzingIds, isEnriching, songsProcessed, totalSongs>>
    /\ UNCHANGED <<impl, collab, available, chunkSize, width, retryChunkSize,
                   retryWidth, mode, phase, target, queue, workers, retryQueue,
                   submits, attempts, oracle, mutVars, libVars>>

\* handleFileSelect once the file has been read and parsed.
LoadFile ==
    /\ file = "none"
    /\ file' = "second"
    /\ tracks' = SecondTracks
    /\ raw' = SecondFile
    /\ UNCHANGED <<impl, collab, available, chunkSize, width, retryChunkSize,
                   retryWidth, mode, phase, target, queue, workers, retryQueue,
                   songsProcessed, totalSongs, analyzingIds, isEnriching,
                   submits, attempts, oracle, mutVars, libVars>>

NextReload ==
    \/ Next
    \/ Reset
    \/ LoadFile

\* One chunk size for both passes, the widest primary pass.
InitReload ==
    /\ Init
    /\ available
    /\ width = MaxWidth
    /\ retryChunkSize = 1
    /\ retryWidth = 1

SpecReload == InitReload /\ [][NextReload]_vars

\* C30: the results of a job go to the collection it was started on: once
\* another file has been loaded, its Track records and its raw tree stay
\* as loaded, whatever chunks of the old job complete afterwards.
C30_ResultsStayWithTheirCollection ==
    file = "second" => (tracks = SecondTracks /\ raw = SecondFile)

====
